---- MODULE Spec2Model ----
(***************************************************************************)
(* State-machine model of the KVMD server control plane                    *)
(* (kvmd/apps/kvmd/server.py): the exposed-operation wrapper with its auth *)
(* gate, the websocket session registry and event broadcaster, the         *)
(* streamer lifecycle controller and the mass-storage upload pipeline.     *)
(*                                                                         *)
(* The server is one object; its parts are checked under separate          *)
(* specifications that share the variables below.  A specification moves   *)
(* only the variables of its part and leaves the others at their initial   *)
(* values.                                                                  *)
(***************************************************************************)
EXTENDS Integers, Sequences, FiniteSets, TLC

VARIABLES
    \* ---- auth gate / exposed operations
    authTokens,       \* AuthManager: the set of live tokens
    request,          \* the request the wrapper handled last
    response,         \* its response: [status, error, invoked]
    nRequests,        \* requests dispatched so far
    \* ---- server fields shared by handlers and the stream controller
    reset_streamer,   \* Server.__reset_streamer
    streamer_params,  \* Server.__streamer_params (the desired parameters)
    \* ---- session registry
    sockets,          \* Server.__sockets
    sockets_lock,     \* Server.__sockets_lock: the caller holding it, or None
    call,             \* per caller: the register/remove call it runs, its position
    lockOrder,        \* history: the calls in the order they acquired the lock
    wsClosed,         \* sessions whose transport ws.close() has closed
    hidClears,        \* number of hid.clear_events() calls made
    \* ---- websocket sessions and event broadcast, seen for one domain
    focus,            \* the domain whose events are followed
    observed,         \* the session whose received events are recorded
    wsPc,             \* per session: the position of its __ws_handler
    dead,             \* sessions whose transport is gone (closed / no transport)
    domVer,           \* the domain's current state (a version number)
    pollSeen,         \* the last state the domain's poll_state() has yielded
    wsSnap,           \* per session: the state read for its full-state replay
    bcast,            \* per broadcast: phase, event, snapshot, sends left, failed
    inbox,            \* the domain's events the observed session received, in order
    escaped,          \* broadcasts that raised to their caller
    \* ---- streamer lifecycle controller (Server.__stream_controller)
    ctlPc,            \* position of the controller in its loop
    prev,             \* its local prev
    cur,              \* its local cur
    shutdown_at,      \* its local shutdown_at
    now,              \* time.time()
    running,          \* Streamer.is_running()
    applied,          \* Streamer.get_params(): the parameters last applied
    tick,             \* history: what the current tick observed
    calls,            \* history: the streamer calls made in the current tick
    dropAt,           \* history: time of the observed drop to 0 still in force
    cancelled,        \* history: a reconnect was seen before an armed deadline
    chg,              \* history: a followed change of the desired parameters
    follows,          \* which history is kept: "conn" (drops, deadlines) or "params"
    \* ---- upload pipeline (Server.__msd_write_handler) and the MSD plugin
    msd_lock,         \* the MSD's exclusive lock: its holder, MsdFree if none
    msd_written,      \* the MSD's count of bytes written under the lock
    up,               \* per upload: position, locals, calls made, response
    selected,         \* history: the last /msd/select and what it found
    \* ---- supervised system tasks and shutdown
    task,             \* per system task: state, cancel request, how it ended
    sigterms,         \* SIGTERMs the server has sent to its own process
    short,            \* per short task of aiotools: new, pending, finished
    shut,             \* Server.__on_shutdown: position, snapshots, history
    clean,            \* Server.__on_cleanup: position, cleanups attempted, faults logged
    \* ---- session lifecycle: message loop and dead-socket reaper
    reap,             \* Server.__poll_dead_sockets: position, sessions left to test
    handled,          \* per session: client messages its handler has processed
    replayLog,        \* history, per session: how its full-state replay ended
    snapAt,           \* history, per broadcast: the registry when it took its snapshot
    \* ---- the message loop of one websocket handler, message by message
    arrived,          \* per session: the messages its client has sent, in order
    msgPc,            \* per session: the handler's position, the message in hand
    msgLog,           \* history, per session: the messages handled, with what each did
    outbox,           \* per session: the pong replies sent to it, by the sender
    \* ---- the registry between two ticks of the stream controller
    joinedSince,      \* history: the sessions registered since the last tick read the count
    \* ---- the /ws requests behind the registry
    admitted,         \* history, per session: the credentials of the request that registered it
    \* ---- the UNIFI GPIO driver (plugins/ugpio/unifi.py), Plugin.run
    ustate,           \* self.__state: per pin, on / off / None
    prev_state,       \* run's local prev_state: unset, the same dict as self.__state, or another
    afterPrev,        \* history: self.__state as the poll before left it
    notified,         \* history: the last poll called self._notifier.notify()
    failed,           \* history: the last poll raised
    polls,            \* polls made
    \* ---- the Redfish API (apps/kvmd/api/redfish.py)
    rfChannels,       \* the output channels of the user GPIO, as inner_init found them
    rfRequest,        \* history: the last action request
    rfResponse,       \* history: its status and the exception behind it
    rfInvoked         \* history: the actions it invoked

authVars == <<authTokens, request, response, nRequests>>
srvVars == <<reset_streamer, streamer_params>>
regVars == <<sockets, sockets_lock, call, lockOrder, wsClosed, hidClears>>
wsVars == <<focus, observed, wsPc, dead, domVer, pollSeen, wsSnap, bcast, inbox, escaped>>
ctlVars == <<ctlPc, prev, cur, shutdown_at, now, running, applied, tick, calls,
             dropAt, cancelled, chg, follows>>
msdVars == <<msd_lock, msd_written, up, selected>>
taskVars == <<task, sigterms, short, shut, clean>>
sessVars == <<reap, handled, replayLog, snapAt>>
msgVars == <<arrived, msgPc, msgLog, outbox>>
gpioVars == <<ustate, prev_state, afterPrev, notified, failed, polls>>
rfVars == <<rfChannels, rfRequest, rfResponse, rfInvoked>>
plugVars == <<gpioVars, rfVars>>
extVars == <<msgVars, joinedSince, admitted, plugVars>>
coreVars == <<authVars, srvVars, regVars, wsVars, ctlVars, msdVars, taskVars, sessVars,
              msgVars, joinedSince, admitted>>
otherVars == <<authVars, srvVars, regVars, wsVars, ctlVars, taskVars, sessVars, extVars>>
vars == <<authVars, srvVars, regVars, wsVars, ctlVars, msdVars, taskVars, sessVars, extVars>>

None == "none"

(***************************************************************************)
(* Bounds                                                                  *)
(***************************************************************************)
MaxRequests == 3
NCallers == 3
NSessions == 2
MaxVer == 1
MaxTime == 6
ShutdownDelay == 1
NUploaders == 2
MaxChunks == 2
NTasks == 2
NShort == 2
MaxMsgs == 1
MaxArrivals == 2
MaxPolls == 4

(***************************************************************************)
(* Exposed operations: (method, path) and the auth_required mark.          *)
(***************************************************************************)
Ops == {"auth_login", "auth_logout", "auth_check", "streamer_reset"}

\* @_exposed(..., auth_required=False) is given to /auth/login only
AuthRequiredNotWs(op) == op \notin {"auth_login", "ws"}

AuthRequired(op) == op # "auth_login"

(***************************************************************************)
(* Header and cookie values.  "" is an absent header or cookie.            *)
(***************************************************************************)
HeaderUsers == {"", "admin", "guest", "bad user"}
HeaderPasswds == {"", "pw", "wrong"}
CookieTokens == {"", "tokA", "tokB", "bad token"}
LoginTokens == {"tokA", "tokB"}

\* validators.auth: a malformed value raises ValidatorError
valid_user(user) == user \in {"admin", "guest"}
valid_passwd(passwd) == passwd \in {"pw", "wrong"}
valid_auth_token(token) == token \in LoginTokens

\* AuthManager.authorize(user, passwd) -> bool
authorize(user, passwd) == user = "admin" /\ passwd = "pw"

\* AuthManager.check(token) -> user | None
check(token, toks) == IF token \in toks THEN "admin" ELSE None

(***************************************************************************)
(* _exposed.wrapper, lines 169-188: the auth gate.  The result is "pass"   *)
(* or the name of the exception raised.                                    *)
(***************************************************************************)
AuthGateNoElse(user, passwd, token, toks) ==
    IF user # ""
    THEN IF ~valid_user(user) \/ ~valid_passwd(passwd) THEN "ValidatorError"
         ELSE IF ~authorize(user, passwd) THEN "ForbiddenError"
         ELSE "pass"
    ELSE IF token # ""
    THEN IF ~valid_auth_token(token) THEN "ValidatorError"
         ELSE IF check(token, toks) = None THEN "ForbiddenError"
         ELSE "pass"
    ELSE "pass"

AuthGateCookieRescues(user, passwd, token, toks) ==
    IF token # "" /\ valid_auth_token(token) /\ check(token, toks) # None THEN "pass"
    ELSE IF user # ""
    THEN IF ~valid_user(user) \/ ~valid_passwd(passwd) THEN "ValidatorError"
         ELSE IF ~authorize(user, passwd) THEN "ForbiddenError"
         ELSE "pass"
    ELSE IF token # ""
    THEN IF ~valid_auth_token(token) THEN "ValidatorError"
         ELSE "ForbiddenError"
    ELSE "UnauthorizedError"

AuthGateHeaderTrusted(user, passwd, token, toks) ==
    IF user # ""
    THEN IF ~valid_user(user) \/ ~valid_passwd(passwd) THEN "ValidatorError"
         ELSE "pass"
    ELSE IF token # ""
    THEN IF ~valid_auth_token(token) THEN "ValidatorError"
         ELSE IF check(token, toks) = None THEN "ForbiddenError"
         ELSE "pass"
    ELSE "UnauthorizedError"

AuthGate(user, passwd, token, toks) ==
    IF user # ""
    THEN IF ~valid_user(user) \/ ~valid_passwd(passwd) THEN "ValidatorError"
         ELSE IF ~authorize(user, passwd) THEN "ForbiddenError"
         ELSE "pass"
    ELSE IF token # ""
    THEN IF ~valid_auth_token(token) THEN "ValidatorError"
         ELSE IF check(token, toks) = None THEN "ForbiddenError"
         ELSE "pass"
    ELSE "UnauthorizedError"

(***************************************************************************)
(* _exposed.wrapper, lines 192-199: the table from exception to status.    *)
(* 500 stands for an exception the wrapper does not catch.                 *)
(***************************************************************************)
StatusOfBusyAsBadRequest(err) ==
    CASE err \in {"ValidatorError", "AtxOperationError", "MsdOperationError",
                  "AtxIsBusyError", "MsdIsBusyError"} -> 400
      [] err = "UnauthorizedError" -> 401
      [] err = "ForbiddenError" -> 403
      [] OTHER -> 500

StatusOf(err) ==
    CASE err \in {"AtxIsBusyError", "MsdIsBusyError"} -> 409
      [] err \in {"ValidatorError", "AtxOperationError", "MsdOperationError"} -> 400
      [] err = "UnauthorizedError" -> 401
      [] err = "ForbiddenError" -> 403
      [] OTHER -> 500

\* _json / _json_exception: the response of the wrapper
Json(status, err, invoked) == [status |-> status, error |-> err, invoked |-> invoked]

\* _json (116-130): the object json.dumps is given; result is "result or {}"
JsonBody(result, status) == [ok |-> status = 200, result |-> result]

\* _json_exception (137-144): the name and the text of the exception are
\* handed to _json as its result
JsonExceptionBody(name, msg, status) == JsonBody([error |-> name, error_msg |-> msg], status)

\* what a handler returns for its result when it returns nothing: {}
EmptyResult == <<>>

\* the body of a response the wrapper made: of the handler's _json(...), or
\* of _json_exception for an exception of the table (192-199)
BodyOf(r) ==
    IF r.error = "" THEN JsonBody(EmptyResult, r.status)
    ELSE JsonExceptionBody(r.error, r.error, r.status)

(***************************************************************************)
(* The handlers.  Each gives the exception it raises ("" for none) and its *)
(* effect on the server.                                                   *)
(***************************************************************************)
\* __auth_login_handler: credentials come in the POST body
LoginResult(user, passwd, newTok) ==
    IF ~valid_user(user) \/ ~valid_passwd(passwd) THEN "ValidatorError"
    ELSE IF authorize(user, passwd) THEN "" ELSE "ForbiddenError"

\* __auth_logout_handler
LogoutResult(token) == IF valid_auth_token(token) THEN "" ELSE "ValidatorError"

HandlerError(op, user, passwd, token, newTok) ==
    CASE op = "auth_login" -> LoginResult(user, passwd, newTok)
      [] op = "auth_logout" -> LogoutResult(token)
      [] OTHER -> ""

HandlerTokens(op, user, passwd, token, newTok, toks) ==
    CASE op = "auth_login" /\ LoginResult(user, passwd, newTok) = "" -> toks \cup {newTok}
      [] op = "auth_logout" /\ LogoutResult(token) = "" -> toks \ {token}
      [] OTHER -> toks

HandlerReset(op, flag) == IF op = "streamer_reset" THEN TRUE ELSE flag

(***************************************************************************)
(* One request through _exposed.wrapper (lines 167-199).  For /auth/login  *)
(* user and passwd are the posted credentials.                             *)
(***************************************************************************)
Dispatch(op, user, passwd, token, newTok) ==
    /\ nRequests < MaxRequests
    /\ nRequests' = nRequests + 1
    /\ request' = [op |-> op, user |-> user, passwd |-> passwd, token |-> token,
                    cookieValid |-> check(token, authTokens) # None]
    /\ LET gate == IF AuthRequired(op) THEN AuthGate(user, passwd, token, authTokens)
                   ELSE "pass"
       IN IF gate # "pass"
          THEN /\ response' = Json(StatusOf(gate), gate, FALSE)
               /\ UNCHANGED <<authTokens, reset_streamer>>
          ELSE LET err == HandlerError(op, user, passwd, token, newTok)
               IN /\ response' = Json(IF err = "" THEN 200 ELSE StatusOf(err), err, TRUE)
                  /\ authTokens' = HandlerTokens(op, user, passwd, token, newTok, authTokens)
                  /\ reset_streamer' = HandlerReset(op, reset_streamer)
    /\ UNCHANGED <<streamer_params, regVars, wsVars, ctlVars, msdVars, taskVars, sessVars, extVars>>

\* operations that call a collaborator: POST /atx/power, POST /msd/connect
DomainOps == {"atx_power", "msd_connect"}

\* what their handlers raise ("" for none): the validator's error, the
\* plugin's busy and operation errors, or any other exception
DomainErrors(op) ==
    IF op = "atx_power"
    THEN {"", "ValidatorError", "AtxIsBusyError", "AtxOperationError", "RuntimeError"}
    ELSE {"", "MsdIsBusyError", "MsdOperationError", "RuntimeError"}

\* one request to such an operation through _exposed.wrapper (167-199)
DispatchDomain(op, user, passwd, token, raised) ==
    /\ nRequests < MaxRequests
    /\ nRequests' = nRequests + 1
    /\ request' = [op |-> op, user |-> user, passwd |-> passwd, token |-> token,
                    cookieValid |-> check(token, authTokens) # None]
    /\ LET gate == AuthGate(user, passwd, token, authTokens)
       IN response' = IF gate # "pass" THEN Json(StatusOf(gate), gate, FALSE)
                      ELSE Json(IF raised = "" THEN 200 ELSE StatusOf(raised),
                                raised, TRUE)
    /\ UNCHANGED <<authTokens, reset_streamer, streamer_params, regVars, wsVars,
                   ctlVars, msdVars, taskVars, sessVars, extVars>>

(***************************************************************************)
(* Session registry: Server.__register_socket (617-621) and                *)
(* Server.__remove_socket (623-634), run by concurrent callers.  A caller  *)
(* moves through the positions of its call; every await and every access  *)
(* to the shared set is a step of its own, so that it is the lock, not the *)
(* granularity of the model, that serialises the calls.                    *)
(***************************************************************************)
Sessions == 1..NSessions
Callers == 1..NCallers

\* steps, close and result are history: the steps of the call made so far,
\* how ws.close() ended, and the exception the call raises to its caller
IdleCall == [pc |-> "idle", op |-> None, ws |-> 0, hidFails |-> FALSE, tmp |-> {},
             steps |-> <<>>, close |-> None, result |-> ""]

\* how await ws.close() ends: it returns, raises an exception, or the task
\* is cancelled while it waits
CloseOutcomes == {"", "Exception", "CancelledError"}

\* 631-634: "except CancelledError: raise" comes before "except Exception:
\* pass"; what is swallowed inside the try block
SwallowedAll(err) == TRUE

SwallowedButKeyError(err) == err \notin {"CancelledError", "KeyError"}

Swallowed(err) == err # "CancelledError"

\* asyncio.Lock(): the value of an unlocked lock (no caller holds it)
NoHolder == 0

\* asyncio.Lock: acquire waits until nobody holds the lock
LockFreeNever(lock) == TRUE

LockFree(lock) == lock = NoHolder

\* set.add / set.remove on the live set; remove raises KeyError on a non-member
SocketsAdd(set, ws) == set \cup {ws}
SocketsRemove(set, ws) == set \ {ws}

\* a caller starts a call: register(ws) or remove(ws); hidFails is whether
\* hid.clear_events() will raise in this call
CallStart(c, op, ws, hidFails) ==
    /\ call[c].pc = "idle"
    /\ call' = [call EXCEPT ![c] = [IdleCall EXCEPT !.pc = "acquire", !.op = op, !.ws = ws,
                                                    !.hidFails = hidFails /\ op = "remove"]]
    /\ UNCHANGED <<sockets, sockets_lock, lockOrder, wsClosed, hidClears>>

\* async with self.__sockets_lock (618, 624)
CallAcquire(c) ==
    /\ call[c].pc = "acquire"
    /\ LockFree(sockets_lock)
    /\ sockets_lock' = c
    /\ lockOrder' = Append(lockOrder, [op |-> call[c].op, ws |-> call[c].ws,
                                        hidFails |-> call[c].hidFails])
    /\ call' = [call EXCEPT ![c].pc = IF call[c].op = "register" THEN "read" ELSE "clear"]
    /\ UNCHANGED <<sockets, wsClosed, hidClears>>

\* await self.__hid.clear_events() (625); an exception leaves the with block
CallClearEvents(c) ==
    /\ call[c].pc = "clear"
    /\ hidClears' = hidClears + 1
    /\ call' = [call EXCEPT ![c].pc = IF call[c].hidFails THEN "release" ELSE "read",
                            ![c].steps = Append(@, "clear"),
                            ![c].result = IF call[c].hidFails THEN "HidError" ELSE @]
    /\ UNCHANGED <<sockets, sockets_lock, lockOrder, wsClosed>>

\* self.__sockets.add(ws) (619) / self.__sockets.remove(ws) (627): the read
CallRead(c) ==
    /\ call[c].pc = "read"
    /\ call' = [call EXCEPT ![c].pc = "write", ![c].tmp = sockets]
    /\ UNCHANGED <<sockets, sockets_lock, lockOrder, wsClosed, hidClears>>

\* ... and the write; KeyError (627) is swallowed at 633 and skips ws.close()
CallWrite(c) ==
    /\ call[c].pc = "write"
    /\ IF call[c].op = "register"
       THEN /\ sockets' = SocketsAdd(call[c].tmp, call[c].ws)
            /\ call' = [call EXCEPT ![c].pc = "release"]
       ELSE IF call[c].ws \in call[c].tmp
       THEN /\ sockets' = SocketsRemove(call[c].tmp, call[c].ws)
            /\ call' = [call EXCEPT ![c].pc = "close", ![c].steps = Append(@, "discard")]
       ELSE /\ sockets' = sockets
            /\ call' = [call EXCEPT ![c].pc = "release",
                                    ![c].result = IF Swallowed("KeyError") THEN @
                                                  ELSE "KeyError"]
    /\ UNCHANGED <<sockets_lock, lockOrder, wsClosed, hidClears>>

\* await ws.close() (630): closes the transport, or raises; an Exception is
\* swallowed (633), CancelledError propagates (631); the lock is released
\* either way
CallClose(c, raises) ==
    /\ call[c].pc = "close"
    /\ wsClosed' = IF raises # "" THEN wsClosed ELSE wsClosed \cup {call[c].ws}
    /\ call' = [call EXCEPT ![c].pc = "release",
                            ![c].steps = Append(@, "close"),
                            ![c].close = raises,
                            ![c].result = IF Swallowed(raises) THEN "" ELSE raises]
    /\ UNCHANGED <<sockets, sockets_lock, lockOrder, hidClears>>

\* leaving the async with block releases the lock
CallRelease(c) ==
    /\ call[c].pc = "release"
    /\ sockets_lock' = NoHolder
    /\ call' = [call EXCEPT ![c].pc = "done"]
    /\ UNCHANGED <<sockets, lockOrder, wsClosed, hidClears>>

NextReg ==
    \/ \E c \in Callers, op \in {"register", "remove"}, ws \in Sessions,
          hidFails \in BOOLEAN :
           CallStart(c, op, ws, hidFails) /\ UNCHANGED <<authVars, srvVars, wsVars, ctlVars, msdVars, taskVars, sessVars, extVars>>
    \/ \E c \in Callers : CallAcquire(c) /\ UNCHANGED <<authVars, srvVars, wsVars, ctlVars, msdVars, taskVars, sessVars, extVars>>
    \/ \E c \in Callers : CallClearEvents(c) /\ UNCHANGED <<authVars, srvVars, wsVars, ctlVars, msdVars, taskVars, sessVars, extVars>>
    \/ \E c \in Callers : CallRead(c) /\ UNCHANGED <<authVars, srvVars, wsVars, ctlVars, msdVars, taskVars, sessVars, extVars>>
    \/ \E c \in Callers : CallWrite(c) /\ UNCHANGED <<authVars, srvVars, wsVars, ctlVars, msdVars, taskVars, sessVars, extVars>>
    \/ \E c \in Callers, raises \in CloseOutcomes :
           CallClose(c, raises) /\ UNCHANGED <<authVars, srvVars, wsVars, ctlVars, msdVars, taskVars, sessVars, extVars>>
    \/ \E c \in Callers : CallRelease(c) /\ UNCHANGED <<authVars, srvVars, wsVars, ctlVars, msdVars, taskVars, sessVars, extVars>>

(***************************************************************************)
(* Websocket sessions and the event broadcaster: Server.__ws_handler       *)
(* (360-396), Server.__broadcast_event (603-615) and the state pollers     *)
(* (671-689).  The five domains do not share state, so a behaviour is      *)
(* followed for one domain, focus, chosen at the start: the handler runs   *)
(* all its steps, and the events of the focus domain are recorded.         *)
(***************************************************************************)
\* _Events
Domains == {"info_state", "hid_state", "atx_state", "msd_state", "streamer_state"}

\* domains with a __poll_*_state system task (671-689): all but info
Polled == Domains \ {"info_state"}

\* domains whose state is read without suspension when the replay is built
\* (369-371: hid, atx, msd get_state() are plain calls)
SyncState == {"hid_state", "atx_state", "msd_state"}

NoSnap == -1
PollerId == 0
BroadcastIds == Sessions \cup {PollerId}

NoBroadcast == [phase |-> "none", kind |-> None, ver |-> 0, targets |-> {},
                sent |-> {}, failed |-> {}]

\* the event a broadcast carries, as a session records it
EventOf(b) == [kind |-> bcast[b].kind, ver |-> bcast[b].ver, origin |-> b]

\* __broadcast_event, 613-614: the snapshot of the live set, without the
\* sessions that are closed or have lost their transport
SnapshotAll(set, deadSet) == set

Snapshot(set, deadSet) == {ws \in set : ws \notin deadSet}

\* asyncio.gather(..., return_exceptions=True), 615: a send that raises is
\* collected; every send of the snapshot is made and nothing is raised to
\* the caller.  Given the snapshot and the sends that raise: the sessions
\* that are sent the event, and whether the gather raises.
GatheredUntilFailure(targets, failing) ==
    {ws \in targets \ failing : \A f \in failing : ws < f}

Gathered(targets, failing) == targets \ failing

GatherRaises(failing) == FALSE

\* await ws.prepare(request) (365)
WsPrepare(s) ==
    /\ wsPc[s] = "new"
    /\ wsPc' = [wsPc EXCEPT ![s] = "prepared"]
    /\ UNCHANGED <<dead, domVer, pollSeen, wsSnap, bcast, inbox, escaped, focus, observed, regVars>>

\* await self.__register_socket(ws) (366, 617-621); nothing suspends inside
\* the lock, so the call is one step once the lock is free.  The handler then
\* starts await self.__make_info() (368).
WsRegister(s) ==
    /\ wsPc[s] = "prepared"
    /\ LockFree(sockets_lock)
    /\ sockets' = SocketsAdd(sockets, s)
    /\ wsPc' = [wsPc EXCEPT ![s] = "make_info"]
    /\ UNCHANGED <<dead, domVer, pollSeen, wsSnap, bcast, inbox, escaped, focus, observed,
                   sockets_lock, call, lockOrder, wsClosed, hidClears>>

\* __make_info() returns (368); hid, atx and msd get_state() are then read
\* (369-371) and await self.__streamer.get_state() starts (372)
WsMakeInfo(s) ==
    /\ wsPc[s] = "make_info"
    /\ wsPc' = [wsPc EXCEPT ![s] = "streamer_state"]
    /\ wsSnap' = IF focus \in SyncState \cup {"info_state"}
                 THEN [wsSnap EXCEPT ![s] = domVer] ELSE wsSnap
    /\ UNCHANGED <<dead, domVer, pollSeen, bcast, inbox, escaped, focus, observed, regVars>>

\* streamer.get_state() returns (372); asyncio.gather (367) schedules the
\* five __broadcast_event coroutines
WsStreamerState(s) ==
    /\ wsPc[s] = "streamer_state"
    /\ wsPc' = [wsPc EXCEPT ![s] = "replay"]
    /\ LET snap == IF focus = "streamer_state" THEN domVer ELSE wsSnap[s]
       IN /\ wsSnap' = [wsSnap EXCEPT ![s] = snap]
          /\ bcast' = [bcast EXCEPT ![s] = [phase |-> "scheduled", kind |-> "replay",
                                             ver |-> snap, targets |-> {},
                                             sent |-> {}, failed |-> {}]]
    /\ UNCHANGED <<dead, domVer, pollSeen, inbox, escaped, focus, observed, regVars>>

\* a scheduled __broadcast_event starts (604-614): it takes the snapshot
BroadcastStart(b) ==
    /\ bcast[b].phase = "scheduled"
    /\ LET snap == Snapshot(sockets, dead)
       IN bcast' = [bcast EXCEPT ![b].phase = IF snap = {} THEN "done" ELSE "sending",
                                 ![b].targets = snap]
    /\ UNCHANGED <<wsPc, dead, domVer, pollSeen, wsSnap, inbox, escaped, focus, observed, regVars>>

\* the sends of the gather (605-615).  ws.send_str raises for a session whose
\* transport is gone by now.  The sends of one broadcast are taken in one
\* step: a session receives two events in the order of their steps, and the
\* sends to different sessions do not act on each other.
BroadcastSend(b) ==
    /\ bcast[b].phase = "sending"
    /\ LET failing == bcast[b].targets \cap dead
           sent == Gathered(bcast[b].targets, failing)
       IN /\ inbox' = IF observed \in sent THEN Append(inbox, EventOf(b)) ELSE inbox
          /\ bcast' = [bcast EXCEPT ![b].sent = sent, ![b].failed = failing,
                                    ![b].phase = "done"]
          /\ escaped' = IF GatherRaises(failing) THEN escaped \cup {b} ELSE escaped
    /\ UNCHANGED <<wsPc, dead, domVer, pollSeen, wsSnap, focus, observed, regVars>>

\* the gather of the replay returns (373) and the message loop starts (374)
WsReplayDone(s) ==
    /\ wsPc[s] = "replay"
    /\ bcast[s].phase = "done"
    /\ wsPc' = [wsPc EXCEPT ![s] = "loop"]
    /\ bcast' = [bcast EXCEPT ![s] = NoBroadcast]
    /\ UNCHANGED <<dead, domVer, pollSeen, wsSnap, inbox, escaped, focus, observed, regVars>>

\* the client goes away: the transport of a prepared session is lost
TransportDies(s) ==
    /\ wsPc[s] # "new"
    /\ s \notin dead
    /\ dead' = dead \cup {s}
    /\ UNCHANGED <<wsPc, domVer, pollSeen, wsSnap, bcast, inbox, escaped, focus, observed, regVars>>

\* the collaborator's state changes
StateChange ==
    /\ focus \in Polled
    /\ domVer < MaxVer
    /\ domVer' = domVer + 1
    /\ UNCHANGED <<wsPc, dead, pollSeen, wsSnap, bcast, inbox, escaped, focus, observed, regVars>>

\* __poll_*_state (671-689): poll_state() yields the current state and the
\* task awaits __broadcast_event, which takes its snapshot at once; the task
\* asks for the next state when the broadcast has returned
PollerBroadcast ==
    /\ focus \in Polled
    /\ bcast[PollerId].phase = "none"
    /\ pollSeen < domVer
    /\ pollSeen' = domVer
    /\ LET snap == Snapshot(sockets, dead)
       IN bcast' = [bcast EXCEPT ![PollerId] =
                        [phase |-> IF snap = {} THEN "done" ELSE "sending",
                         kind |-> "incr", ver |-> domVer, targets |-> snap,
                         sent |-> {}, failed |-> {}]]
    /\ UNCHANGED <<wsPc, dead, domVer, wsSnap, inbox, escaped, focus, observed, regVars>>

\* the poller's await __broadcast_event returns (674, 679, 684, 689)
PollerNext ==
    /\ bcast[PollerId].phase = "done"
    /\ bcast' = [bcast EXCEPT ![PollerId] = NoBroadcast]
    /\ UNCHANGED <<wsPc, dead, domVer, pollSeen, wsSnap, inbox, escaped, focus, observed, regVars>>

\* 374: "async for msg in ws" is reached when the gather of the replay
\* (367-373) has returned
LoopOpenEarly(pc) == pc \in {"replay", "loop"}

LoopOpen(pc) == pc = "loop"

NoReplay == [done |-> FALSE, sent |-> FALSE]
NoSnapAt == [members |-> {}, closed |-> {}]

\* the gather of the replay returns (373); what it did is recorded
SessReplayDone(s) ==
    /\ WsReplayDone(s)
    /\ replayLog' = [replayLog EXCEPT ![s] = [done |-> TRUE, sent |-> s \in bcast[s].sent]]
    /\ snapAt' = [snapAt EXCEPT ![s] = NoSnapAt]
    /\ UNCHANGED <<reap, handled>>

\* a __broadcast_event of the replay takes its snapshot (604-614)
SessBroadcastStart(b) ==
    /\ BroadcastStart(b)
    /\ snapAt' = [snapAt EXCEPT ![b] = [members |-> sockets, closed |-> dead]]
    /\ UNCHANGED <<reap, handled, replayLog>>

\* one turn of the message loop (374-393): a TEXT message of the client is
\* parsed and handled.  A message received before the transport was lost is
\* still delivered by the iterator.
WsMessage(s) ==
    /\ LoopOpen(wsPc[s])
    /\ handled[s] < MaxMsgs
    /\ handled' = [handled EXCEPT ![s] = @ + 1]
    /\ UNCHANGED <<reap, replayLog, snapAt, wsVars, regVars>>

\* the loop ends (394-396): the iterator stops on a close or a lost
\* transport, or a message that is not TEXT breaks the loop; the handler
\* returns ws and the framework finishes the response, which closes it
WsLoopEnd(s) ==
    /\ LoopOpen(wsPc[s])
    /\ wsPc' = [wsPc EXCEPT ![s] = "returned"]
    /\ dead' = dead \cup {s}
    /\ UNCHANGED <<domVer, pollSeen, wsSnap, bcast, inbox, escaped, focus, observed,
                   regVars, sessVars>>

NextWs ==
    \/ \E s \in Sessions : WsPrepare(s) /\ UNCHANGED <<authVars, srvVars, ctlVars, msdVars, taskVars, sessVars, extVars>>
    \/ \E s \in Sessions : WsRegister(s) /\ UNCHANGED <<authVars, srvVars, ctlVars, msdVars, taskVars, sessVars, extVars>>
    \/ \E s \in Sessions : WsMakeInfo(s) /\ UNCHANGED <<authVars, srvVars, ctlVars, msdVars, taskVars, sessVars, extVars>>
    \/ \E s \in Sessions : WsStreamerState(s) /\ UNCHANGED <<authVars, srvVars, ctlVars, msdVars, taskVars, sessVars, extVars>>
    \/ \E b \in BroadcastIds : BroadcastStart(b) /\ UNCHANGED <<authVars, srvVars, ctlVars, msdVars, taskVars, sessVars, extVars>>
    \/ \E b \in BroadcastIds : BroadcastSend(b) /\ UNCHANGED <<authVars, srvVars, ctlVars, msdVars, taskVars, sessVars, extVars>>
    \/ \E s \in Sessions : SessReplayDone(s) /\ UNCHANGED <<authVars, srvVars, ctlVars, msdVars, taskVars, extVars>>
    \/ \E s \in Sessions : WsMessage(s) /\ UNCHANGED <<authVars, srvVars, ctlVars, msdVars, taskVars, extVars>>
    \/ \E s \in Sessions : WsLoopEnd(s) /\ UNCHANGED <<authVars, srvVars, ctlVars, msdVars, taskVars, extVars>>
    \/ \E s \in Sessions : TransportDies(s) /\ UNCHANGED <<authVars, srvVars, ctlVars, msdVars, taskVars, sessVars, extVars>>
    \/ StateChange /\ UNCHANGED <<authVars, srvVars, ctlVars, msdVars, taskVars, sessVars, extVars>>
    \/ PollerBroadcast /\ UNCHANGED <<authVars, srvVars, ctlVars, msdVars, taskVars, sessVars, extVars>>
    \/ PollerNext /\ UNCHANGED <<authVars, srvVars, ctlVars, msdVars, taskVars, sessVars, extVars>>

(***************************************************************************)
(* Streamer lifecycle controller: Server.__stream_controller (638-661),    *)
(* with the handlers that change what it reads (528-542) and the Streamer  *)
(* it drives.  The controller runs from one await to the next in one step. *)
(***************************************************************************)
\* values of the query parameters of /streamer/set_params: a valid value,
\* Absent (no such parameter) or Invalid (the validator raises)
Absent == 0
Invalid == -1
QualityValues == {1, 2}
FpsValues == {1}

\* validators.kvm
valid_stream_quality(v) == v \in QualityValues
valid_stream_fps(v) == v \in FpsValues

\* Streamer.get_params() at construction (261)
InitialParams == [quality |-> 1, desired_fps |-> 1]

NoDrop == -1
NoChange == [active |-> FALSE, checks |-> 0, cycles |-> 0, again |-> FALSE,
             preempted |-> FALSE, no_init |-> TRUE]
\* the followed change is over: another request came after it
Unfollowed == [NoChange EXCEPT !.again = TRUE]
NoTick == [prev |-> 0, cur |-> 0, now |-> 0, ran |-> FALSE, driftDue |-> FALSE,
           desired |-> [quality |-> 1, desired_fps |-> 1],
           deadline |-> 0, blip |-> FALSE]

\* Streamer.start(params, no_init_restart) / Streamer.stop(): the call, as
\* the history records it
StartCall(params, no_init_restart, by) ==
    [op |-> "start", params |-> params, no_init_restart |-> no_init_restart, by |-> by]
StopCall(by) ==
    [op |-> "stop", params |-> InitialParams, no_init_restart |-> FALSE, by |-> by]

\* 645: the connection-driven start is due
ConnStartDueSecond(p, c) == p = 0 /\ c > 1

ConnStartDue(p, c) == p = 0 /\ c > 0

\* 648: the drop to zero is observed
DropSeenAtZero(p, c) == c = 0

DropSeen(p, c) == p > 0 /\ c = 0

\* 649: the deadline armed at a drop
ArmOnce(t, old) == IF old = 0 THEN t + ShutdownDelay ELSE old

ArmDeadline(t, old) == t + ShutdownDelay

\* 650: no session for two ticks and the deadline is past
ConnStopNever(p, c, t, deadline) == FALSE

DeadlineIgnored(p, c, t, deadline) == p = 0 /\ c = 0

ConnStopDue(p, c, t, deadline) == p = 0 /\ c = 0 /\ t > deadline

\* 654: the parameter/reset-driven restart is asked for
DriftOnlyParams(flag, desired, actual) == desired # actual

DriftDue(flag, desired, actual) == flag \/ desired # actual

\* 657: the restart passes no_init_restart=True
RestartInit == FALSE

RestartNoInit == TRUE

\* 646: the connection-driven start is made only if is_running() is false
StartAllowedAlways(isRunning) == TRUE

StartAllowed(isRunning) == ~isRunning

\* what one tick reads and writes: the controller's locals, the clock, the
\* streamer (is_running(), get_params()) and the server's desired parameters
\* and reset flag
TickState(c) ==
    [prev |-> prev, cur |-> c, now |-> now, shutdown_at |-> shutdown_at,
     running |-> running, applied |-> applied,
     params |-> streamer_params, flag |-> reset_streamer]

\* 645-652: the connection-driven trigger, from the tick's state to the
\* state it leaves
ConnTrigger(st) ==
    IF ConnStartDue(st.prev, st.cur)
    THEN IF StartAllowed(st.running)
         THEN [st EXCEPT !.running = TRUE, !.applied = st.params] ELSE st
    ELSE IF DropSeen(st.prev, st.cur)
    THEN [st EXCEPT !.shutdown_at = ArmDeadline(st.now, st.shutdown_at)]
    ELSE IF ConnStopDue(st.prev, st.cur, st.now, st.shutdown_at)
    THEN IF st.running THEN [st EXCEPT !.running = FALSE] ELSE st
    ELSE st

\* 654-658: the parameter/reset-driven trigger, with no request arriving
\* while it awaits: a running streamer is stopped and started with the
\* desired parameters, and the flag is cleared
DriftTrigger(st) ==
    IF DriftDue(st.flag, st.params, st.applied)
    THEN [st EXCEPT !.applied = IF st.running THEN st.params ELSE @, !.flag = FALSE]
    ELSE st

\* 644-652: the start of a tick and the connection-driven branch
CtlConn ==
    /\ ctlPc = "conn"
    /\ LET c == Cardinality(sockets)
           starts == ConnStartDue(prev, c) /\ StartAllowed(running)
           arms == ~ConnStartDue(prev, c) /\ DropSeen(prev, c)
           stops == /\ ~ConnStartDue(prev, c) /\ ~DropSeen(prev, c)
                    /\ ConnStopDue(prev, c, now, shutdown_at) /\ running
       IN /\ cur' = c
          /\ tick' = [prev |-> prev, cur |-> c, now |-> now, ran |-> running,
                      driftDue |-> FALSE, desired |-> streamer_params,
                      deadline |-> IF follows = "conn" THEN shutdown_at ELSE 0,
                      blip |-> joinedSince \ sockets # {}]
          /\ joinedSince' = {}
          /\ calls' = IF starts THEN <<StartCall(streamer_params, FALSE, "conn")>>
                      ELSE IF stops THEN <<StopCall("conn")>> ELSE <<>>
          /\ running' = ConnTrigger(TickState(c)).running
          /\ applied' = ConnTrigger(TickState(c)).applied
          /\ shutdown_at' = ConnTrigger(TickState(c)).shutdown_at
          /\ dropAt' = IF follows # "conn" THEN dropAt
                       ELSE IF arms THEN now ELSE IF c > 0 THEN NoDrop ELSE dropAt
          /\ cancelled' = (cancelled \/ (c > 0 /\ dropAt # NoDrop /\ now <= shutdown_at))
          /\ chg' = IF chg.active /\ chg.checks = 0 /\ stops
                    THEN [chg EXCEPT !.preempted = TRUE] ELSE chg
    /\ ctlPc' = "drift"
    /\ UNCHANGED <<prev, now, sockets, reset_streamer, streamer_params>>

\* history: one more drift check (654) made after the followed change
Checked(c) == [c EXCEPT !.checks = IF c.active /\ c.checks < 2 THEN c.checks + 1 ELSE c.checks]

\* 654-656: the drift check; a restart begins with await self.__streamer.stop()
CtlDrift ==
    /\ ctlPc = "drift"
    /\ IF DriftDue(reset_streamer, streamer_params, applied)
       THEN IF running
            THEN /\ calls' = Append(calls, StopCall("drift"))
                 /\ running' = FALSE
                 /\ tick' = [tick EXCEPT !.driftDue = TRUE]
                 /\ ctlPc' = "restart"
                 /\ UNCHANGED <<reset_streamer, prev>>
            ELSE /\ reset_streamer' = FALSE
                 /\ prev' = cur
                 /\ ctlPc' = "sleep"
                 /\ UNCHANGED <<calls, running, tick>>
       ELSE /\ prev' = cur
            /\ ctlPc' = "sleep"
            /\ UNCHANGED <<calls, running, tick, reset_streamer>>
    /\ chg' = Checked(chg)
    /\ UNCHANGED <<cur, shutdown_at, now, applied, dropAt, cancelled, sockets,
                   streamer_params>>

\* 657: await self.__streamer.start(self.__streamer_params, no_init_restart=True)
CtlRestart ==
    /\ ctlPc = "restart"
    /\ calls' = Append(calls, StartCall(streamer_params, RestartNoInit, "drift"))
    /\ running' = TRUE
    /\ applied' = streamer_params
    /\ chg' = IF chg.active
              THEN [chg EXCEPT !.cycles = IF @ < 2 THEN @ + 1 ELSE @,
                               !.no_init = @ /\ RestartNoInit]
              ELSE chg
    /\ ctlPc' = "restarted"
    /\ UNCHANGED <<prev, cur, shutdown_at, now, tick, dropAt, cancelled, sockets,
                   reset_streamer, streamer_params>>

\* 658-660: start has returned; the reset flag is cleared and the tick ends
CtlRestarted ==
    /\ ctlPc = "restarted"
    /\ reset_streamer' = FALSE
    /\ prev' = cur
    /\ ctlPc' = "sleep"
    /\ UNCHANGED <<cur, shutdown_at, now, running, applied, tick, calls, dropAt,
                   cancelled, chg, sockets, streamer_params>>

\* 661: await asyncio.sleep(0.1) returns after d units of time
CtlSleep(d) ==
    /\ ctlPc = "sleep"
    /\ now + d <= MaxTime
    /\ now' = now + d
    /\ ctlPc' = "conn"
    /\ tick' = NoTick
    /\ calls' = <<>>
    /\ UNCHANGED <<prev, cur, shutdown_at, running, applied, dropAt,
                   cancelled, chg, sockets, reset_streamer, streamer_params>>

\* a session is registered / removed (the registry, as the controller sees it)
SessionJoins(s) ==
    /\ s \notin sockets
    /\ sockets' = SocketsAdd(sockets, s)
    /\ joinedSince' = IF follows = "conn" THEN joinedSince \cup {s} ELSE joinedSince
    /\ UNCHANGED <<ctlVars, reset_streamer, streamer_params>>

SessionLeaves(s) ==
    /\ s \in sockets
    /\ sockets' = SocketsRemove(sockets, s)
    /\ UNCHANGED <<ctlVars, reset_streamer, streamer_params>>

\* __streamer_set_params_handler (528-537): each given parameter is
\* validated and stored in turn; the result is the parameters and the error
SetParams(params, quality, fps) ==
    IF quality # Absent /\ ~valid_stream_quality(quality)
    THEN [params |-> params, error |-> "ValidatorError"]
    ELSE LET p1 == IF quality # Absent THEN [params EXCEPT !.quality = quality]
                   ELSE params
         IN IF fps # Absent /\ ~valid_stream_fps(fps)
            THEN [params |-> p1, error |-> "ValidatorError"]
            ELSE [params |-> IF fps # Absent THEN [p1 EXCEPT !.desired_fps = fps] ELSE p1,
                  error |-> ""]

\* POST /streamer/set_params by an authorized client; the history follows
\* the first change made while the streamer runs
SetParamsRequest(quality, fps) ==
    /\ LET res == SetParams(streamer_params, quality, fps)
       IN /\ streamer_params' = res.params
          /\ chg' = IF follows # "params" \/ chg.again THEN chg
                    ELSE IF chg.active THEN Unfollowed
                    ELSE IF running /\ res.params # streamer_params
                    THEN [NoChange EXCEPT !.active = TRUE]
                    ELSE chg
    /\ UNCHANGED <<ctlPc, prev, cur, shutdown_at, now, running, applied, tick, calls,
                   dropAt, cancelled, sockets, reset_streamer>>

\* POST /streamer/reset by an authorized client (539-542)
ResetRequest ==
    /\ ~reset_streamer
    /\ reset_streamer' = HandlerReset("streamer_reset", reset_streamer)
    /\ chg' = IF chg.active THEN Unfollowed ELSE chg
    /\ UNCHANGED <<ctlPc, prev, cur, shutdown_at, now, running, applied, tick, calls,
                   dropAt, cancelled, sockets, streamer_params>>

CtlFrame ==
    UNCHANGED <<authVars, wsVars, msdVars, taskVars, sessVars, msgVars, admitted, plugVars, sockets_lock, call, lockOrder, wsClosed, hidClears, follows>>

NextCtl ==
    \/ CtlConn /\ CtlFrame
    \/ CtlDrift /\ UNCHANGED joinedSince /\ CtlFrame
    \/ CtlRestart /\ UNCHANGED joinedSince /\ CtlFrame
    \/ CtlRestarted /\ UNCHANGED joinedSince /\ CtlFrame
    \/ \E d \in 1..2 : CtlSleep(d) /\ UNCHANGED joinedSince /\ CtlFrame
    \/ \E s \in Sessions : SessionJoins(s) /\ CtlFrame
    \/ \E s \in Sessions : SessionLeaves(s) /\ UNCHANGED joinedSince /\ CtlFrame
    \/ \E q \in QualityValues \cup {Absent, Invalid},
          f \in FpsValues \cup {Absent, Invalid} :
           SetParamsRequest(q, f) /\ UNCHANGED joinedSince /\ CtlFrame
    \/ ResetRequest /\ UNCHANGED joinedSince /\ CtlFrame

CtlInit ==
    /\ ctlPc = "conn"
    /\ prev = 0
    /\ cur = 0
    /\ shutdown_at = 0
    /\ now = 1
    /\ running = FALSE
    /\ applied = InitialParams
    /\ tick = NoTick
    /\ calls = <<>>
    /\ dropAt = NoDrop
    /\ cancelled = FALSE
    /\ chg = NoChange

CtlIdle == CtlInit /\ follows = "conn"

(***************************************************************************)
(* The upload pipeline: Server.__msd_write_handler, one step per await.    *)
(* The mass-storage plugin (its lock, its byte count, its errors) and the  *)
(* image-name validator are collaborators modelled from their contract.    *)
(***************************************************************************)
Uploaders == 1..NUploaders

MsdFree == 0

\* the sizes of the chunks data_field.read_chunk() returns (never empty
\* before the end of the stream)
ChunkSizes == {1, 2}

\* a field of the multipart body as reader.next() gives it: its name and
\* what read() returns, decoded; NoField: the body has no further field
NoField == [name |-> None, value |-> ""]

Fields == {NoField, [name |-> "image_data", value |-> "disk.img"]}
          \cup {[name |-> "image_name", value |-> v] : v \in {"disk.img", "b.iso", "bad/name"}}

\* validators.kvm.valid_msd_image_name: accepts a plain file name
MsdImageNameOk(raw) == raw \in {"disk.img", "b.iso"}

valid_msd_image_name(raw) == raw

\* _get_multipart_field: the next field must exist and carry the asked name
MultipartFieldAny(field, name) == TRUE

MultipartFieldOk(field, name) == field # NoField /\ field.name = name

\* the MSD calls of one upload, as the plugin receives them
InfoCall(name, complete) == [op |-> "write_image_info", name |-> name,
                             complete |-> complete, size |-> 0]

ChunkCall(name, size) == [op |-> "write_image_chunk", name |-> name,
                          complete |-> FALSE, size |-> size]

\* BaseMsd.write_image_chunk: appends the chunk and returns the bytes written
\* since the lock was taken
MsdWriteChunk(count, size) == count + size

\* 510: written is what write_image_chunk returned
WrittenLen(old, ret, size) == size

Written(old, ret, size) == ret

\* 498: "async with" leaves through __aexit__ on every path, raising or not
ReleaseOnSuccess(err) == err = ""

ReleaseOnExit(err) == TRUE

\* 515: the body of the success response
ImageResult(name, size) == [name |-> name, size |-> size]

NoImage == ImageResult("", 0)

\* history is kept for one upload: the fields it read, the chunks its stream
\* gave, the MSD calls it made and the body of its response; the others keep
\* their outcome
Followed(u) == \A v \in Uploaders : u <= v

Kept(u, history) == IF Followed(u) THEN history ELSE <<>>

IdleUpload == [pc |-> "idle", image_name |-> "", written |-> 0, chunk |-> 0,
               nread |-> 0, fields |-> <<>>, stream |-> <<>>, calls |-> <<>>, exit |-> None,
               status |-> 0, image |-> NoImage]

InProgress == {"name", "data", "info", "read", "write", "final"}

\* an upload that failed after at least one chunk was written
FailedAfterChunk(r) == r.pc = "done" /\ r.status # 200 /\ r.written > 0

NoSelect == [status |-> 0, blocked_by |-> None, after |-> FALSE]

\* 511-514: the finalizing write_image_info is the last statement of the
\* block; "finally" only logs, so an exception adds no MSD call
LeaveCallsFinalize(err, log, name) ==
    IF err = "" \/ log = <<>> THEN log ELSE Append(log, InfoCall(name, TRUE))

LeaveCalls(err, log, name) == log

\* the upload leaves the "async with" block at `at`, raising err ("" for
\* none), and the wrapper answers
Leave(u, at, err, log) ==
    /\ msd_lock' = IF ReleaseOnExit(err) THEN MsdFree ELSE msd_lock
    /\ up' = [up EXCEPT ![u] =
                IF err = "" /\ Followed(u)
                THEN [@ EXCEPT !.pc = "done", !.exit = at, !.calls = log, !.status = 200,
                               !.image = ImageResult(up[u].image_name, up[u].written)]
                ELSE [IdleUpload EXCEPT !.pc = "done", !.exit = at,
                                        !.image_name = IF Followed(u) THEN up[u].image_name
                                                       ELSE "",
                                        !.fields = up[u].fields,
                                        !.calls = LeaveCalls(err, log, up[u].image_name),
                                        !.written = IF err = "" THEN 0 ELSE up[u].written,
                                        !.status = IF err = "" THEN 200 ELSE StatusOf(err)]]
    /\ UNCHANGED <<msd_written, selected>>

\* 494-496: reader = await request.multipart(); image_name = ""; written = 0
UploadStart(u) ==
    /\ up[u].pc = "idle"
    /\ up' = [up EXCEPT ![u].pc = "enter", ![u].image_name = "", ![u].written = 0]
    /\ UNCHANGED <<msd_lock, msd_written, selected>>

\* BaseMsd.__aenter__: the plugin refuses to enter while its lock is held
MsdBusyNever(lock) == FALSE

MsdBusy(lock) == lock # MsdFree

\* 498: async with self.__msd; a held lock raises MsdIsBusyError
UploadEnter(u) ==
    /\ up[u].pc = "enter"
    /\ IF MsdBusy(msd_lock)
       THEN /\ up' = [up EXCEPT ![u].pc = "done", ![u].exit = "enter",
                                ![u].status = StatusOf("MsdIsBusyError")]
            /\ UNCHANGED <<msd_lock, msd_written, selected>>
       ELSE /\ msd_lock' = u
            /\ msd_written' = 0
            /\ up' = [up EXCEPT ![u].pc = "name"]
            /\ UNCHANGED selected

\* 499-500: the image_name field, read and validated
UploadName(u, field) ==
    /\ up[u].pc = "name"
    /\ IF MultipartFieldOk(field, "image_name") /\ MsdImageNameOk(field.value)
       THEN /\ up' = [up EXCEPT ![u].pc = "data",
                                ![u].image_name = valid_msd_image_name(field.value),
                                ![u].fields = Kept(u, Append(@, field))]
            /\ UNCHANGED <<msd_lock, msd_written, selected>>
       ELSE Leave(u, "name", "ValidatorError", up[u].calls)

\* 502: the image_data field
UploadData(u, field) ==
    /\ up[u].pc = "data"
    /\ IF MultipartFieldOk(field, "image_data")
       THEN /\ up' = [up EXCEPT ![u].pc = "info", ![u].fields = Kept(u, Append(@, field))]
            /\ UNCHANGED <<msd_lock, msd_written, selected>>
       ELSE Leave(u, "data", "ValidatorError", up[u].calls)

\* 505: await self.__msd.write_image_info(image_name, False)
UploadInfo(u, fails) ==
    /\ up[u].pc = "info"
    /\ LET log == Kept(u, Append(up[u].calls, InfoCall(up[u].image_name, FALSE)))
       IN  IF fails
           THEN Leave(u, "info", "MsdOperationError", log)
           ELSE /\ up' = [up EXCEPT ![u].pc = "read", ![u].calls = log]
                /\ UNCHANGED <<msd_lock, msd_written, selected>>

\* 507-509: chunk = await data_field.read_chunk(...); size 0 is the end
UploadRead(u, size, fails) ==
    /\ up[u].pc = "read"
    /\ size > 0 => up[u].nread < MaxChunks
    /\ IF fails
       THEN Leave(u, "read", "ConnectionError", up[u].calls)
       ELSE /\ up' = [up EXCEPT ![u].pc = IF size = 0 THEN "final" ELSE "write",
                                ![u].chunk = size,
                                ![u].nread = IF size = 0 THEN @ ELSE @ + 1,
                                ![u].stream = IF size = 0 THEN @
                                              ELSE Kept(u, Append(@, size))]
            /\ UNCHANGED <<msd_lock, msd_written, selected>>

\* 510: written = await self.__msd.write_image_chunk(chunk)
UploadWrite(u, fails) ==
    /\ up[u].pc = "write"
    /\ LET log == Kept(u, Append(up[u].calls, ChunkCall(up[u].image_name, up[u].chunk)))
           ret == MsdWriteChunk(msd_written, up[u].chunk)
       IN  IF fails
           THEN Leave(u, "write", "MsdOperationError", log)
           ELSE /\ msd_written' = ret
                /\ up' = [up EXCEPT ![u].pc = "read", ![u].calls = log, ![u].chunk = 0,
                                    ![u].written = Written(@, ret, up[u].chunk)]
                /\ UNCHANGED <<msd_lock, selected>>

\* 511-515: await self.__msd.write_image_info(image_name, True), the block
\* is left and the response is made
UploadFinal(u, fails) ==
    /\ up[u].pc = "final"
    /\ LET log == Kept(u, Append(up[u].calls, InfoCall(up[u].image_name, TRUE)))
       IN  IF fails
           THEN Leave(u, "final", "MsdOperationError", log)
           ELSE Leave(u, "ok", "", log)

\* __msd_select_handler: the plugin refuses while its lock is held
MsdSelect ==
    /\ selected' = [status |-> IF msd_lock = MsdFree THEN 200
                               ELSE StatusOf("MsdIsBusyError"),
                    blocked_by |-> IF msd_lock = MsdFree THEN None
                                   ELSE IF up[msd_lock].pc \in InProgress THEN "running"
                                   ELSE "finished",
                    after |-> \E u \in Uploaders : FailedAfterChunk(up[u])]
    /\ selected' # selected
    /\ UNCHANGED <<msd_lock, msd_written, up>>

NextUpload ==
    \/ \E u \in Uploaders : UploadStart(u) /\ UNCHANGED otherVars
    \/ \E u \in Uploaders : UploadEnter(u) /\ UNCHANGED otherVars
    \/ \E u \in Uploaders, field \in Fields : UploadName(u, field) /\ UNCHANGED otherVars
    \/ \E u \in Uploaders, field \in Fields : UploadData(u, field) /\ UNCHANGED otherVars
    \/ \E u \in Uploaders, fails \in BOOLEAN : UploadInfo(u, fails) /\ UNCHANGED otherVars
    \/ \E u \in Uploaders, size \in ChunkSizes \cup {0}, fails \in BOOLEAN :
           UploadRead(u, size, fails) /\ UNCHANGED otherVars
    \/ \E u \in Uploaders, fails \in BOOLEAN : UploadWrite(u, fails) /\ UNCHANGED otherVars
    \/ \E u \in Uploaders, fails \in BOOLEAN : UploadFinal(u, fails) /\ UNCHANGED otherVars
    \/ MsdSelect /\ UNCHANGED otherVars

MsdInit ==
    /\ msd_lock = MsdFree
    /\ msd_written = 0
    /\ up = [u \in Uploaders |-> IdleUpload]
    /\ selected = NoSelect

(***************************************************************************)
(* Supervised system tasks (_system_task, 208-220) and the shutdown        *)
(* handler (Server.__on_shutdown, 569-584).  The short tasks are those of  *)
(* aiotools; get_short_tasks() gives the ones pending when it is called.   *)
(***************************************************************************)
SysTasks == 1..NTasks

ShortTasks == 1..NShort

\* how the body of a system task ends: it returns, raises an exception
\* other than CancelledError, or is left by the CancelledError of a cancel
BodyOutcomes == {"return", "raise", "cancel"}

\* 210-217: what the wrapper escalates.  A return becomes RuntimeError
\* (212) and is caught with any other exception (215); CancelledError is
\* caught first (213) and passed over
WrapperKillsOnRaise(outcome) == outcome = "raise"

WrapperKillsAlways(outcome) == TRUE

WrapperKills(outcome) == outcome # "cancel"

RunningTask == [state |-> "running", cancel |-> FALSE, how |-> None,
                logged |-> FALSE, signalled |-> FALSE]

\* 573: the gather over the short tasks of the snapshot has returned
ShortSkipped(snap, pending) == TRUE

ShortAwaited(snap, pending) == snap \cap pending = {}

\* 579: the gather over the system tasks has returned
SystemAwaited(tasks) == \A t \in SysTasks : tasks[t].state = "done"

\* the body of system task t ends; the wrapper handles the outcome in the
\* same step (it has no await): 216 logs, 217 sends SIGTERM to os.getpid().
\* task.cancel() throws CancelledError into the body at the await where it
\* is suspended, and the bodies (638-689) let it propagate
TaskEnds(t, outcome) ==
    /\ task[t].state = "running"
    /\ outcome = "cancel" <=> task[t].cancel
    /\ task' = [task EXCEPT ![t] = [state |-> "done", cancel |-> task[t].cancel,
                                    how |-> outcome,
                                    logged |-> WrapperKills(outcome),
                                    signalled |-> WrapperKills(outcome)]]
    /\ sigterms' = IF WrapperKills(outcome) THEN sigterms + 1 ELSE sigterms
    /\ UNCHANGED <<short, shut, sockets>>

\* aiotools: a short task is created / finishes
ShortSpawn(k) ==
    /\ short[k] = "new"
    /\ short' = [short EXCEPT ![k] = "pending"]
    /\ UNCHANGED <<task, sigterms, shut, sockets>>

ShortFinish(k) ==
    /\ short[k] = "pending"
    /\ short' = [short EXCEPT ![k] = "finished"]
    /\ UNCHANGED <<task, sigterms, shut, sockets>>

PendingShort == {k \in ShortTasks : short[k] = "pending"}

\* a session is registered while the server serves
TaskSessionJoins(s) ==
    /\ shut.pc = "serving"
    /\ s \notin sockets
    /\ s \notin shut.removed
    /\ sockets' = SocketsAdd(sockets, s)
    /\ UNCHANGED <<task, sigterms, short, shut>>

\* 569-573: the application shuts down (SIGTERM, its own or another's, or
\* an interrupt); get_short_tasks() is called and the gather is awaited
ShutdownStart ==
    /\ shut.pc = "serving"
    /\ shut' = [shut EXCEPT !.pc = "wait_short", !.short_snap = PendingShort]
    /\ UNCHANGED <<task, sigterms, short, sockets>>

\* 575-577: for task in self.__system_tasks: task.cancel()
ShutdownCancel ==
    /\ shut.pc = "wait_short"
    /\ ShortAwaited(shut.short_snap, PendingShort)
    /\ task' = [t \in SysTasks |->
                  IF task[t].state = "running" THEN [task[t] EXCEPT !.cancel = TRUE]
                  ELSE task[t]]
    /\ shut' = [shut EXCEPT !.pc = "wait_system",
                            !.short_at_cancel = shut.short_snap \cap PendingShort]
    /\ UNCHANGED <<sigterms, short, sockets>>

\* 579-582: the system tasks are awaited, then list(self.__sockets) is taken
ShutdownDisconnect ==
    /\ shut.pc = "wait_system"
    /\ SystemAwaited(task)
    /\ shut' = [shut EXCEPT !.pc = IF sockets = {} THEN "done" ELSE "disconnect",
                            !.left = sockets]
    /\ UNCHANGED <<task, sigterms, short, sockets>>

\* 583-584: await self.__remove_socket(ws) for the next session of the list;
\* an exception of hid.clear_events() (625) leaves the handler, and so does
\* what ws.close() raises (630) unless __remove_socket swallows it (631-634)
ShutdownRemove(s, hidFails, raises) ==
    /\ shut.pc = "disconnect"
    /\ s \in shut.left
    /\ \A other \in shut.left : s <= other
    /\ IF hidFails
       THEN /\ shut' = [shut EXCEPT !.pc = "failed", !.fault = "clear_events"]
            /\ UNCHANGED sockets
       ELSE /\ sockets' = SocketsRemove(sockets, s)
            /\ shut' = [shut EXCEPT !.left = @ \ {s},
                                    !.removed = @ \cup {s},
                                    !.close_faults = IF raises = "Exception"
                                                     THEN @ \cup {s} ELSE @,
                                    !.stopped_at_remove =
                                        @ /\ \A t \in SysTasks : task[t].state = "done",
                                    !.fault = IF Swallowed(raises) THEN @ ELSE raises,
                                    !.pc = IF ~Swallowed(raises) THEN "failed"
                                           ELSE IF shut.left = {s} THEN "done" ELSE @]
    /\ UNCHANGED <<task, sigterms, short>>

\* 588-592: the collaborators __on_cleanup closes, in this order
Collaborators == <<"Auth manager", "Streamer", "MSD", "ATX", "HID">>

\* how await obj.cleanup() ends: it returns or raises an exception
CleanupOutcomes == {"", "Exception"}

\* 598-601: "except Exception" logs the fault and the loop goes on
CleanupGoesOnIfOk(outcome) == outcome = ""

CleanupGoesOn(outcome) == outcome \in CleanupOutcomes

NoCleanup == [pc |-> "idle", attempted |-> <<>>, logged |-> {}]

\* the application runs its cleanup handlers when the shutdown handlers
\* have returned
CleanupStart ==
    /\ shut.pc = "done"
    /\ clean.pc = "idle"
    /\ clean' = [clean EXCEPT !.pc = "running"]
    /\ UNCHANGED <<task, sigterms, short, shut, sockets>>

\* 596-601: await obj.cleanup() for the next collaborator of the list
CleanupNext(outcome) ==
    /\ clean.pc = "running"
    /\ LET i == Len(clean.attempted) + 1
           name == Collaborators[i]
       IN clean' = [pc |-> IF ~CleanupGoesOn(outcome) THEN "failed"
                           ELSE IF i = Len(Collaborators) THEN "done" ELSE "running",
                    attempted |-> Append(clean.attempted, name),
                    logged |-> IF outcome = "" THEN clean.logged
                               ELSE clean.logged \cup {name}]
    /\ UNCHANGED <<task, sigterms, short, shut, sockets>>

TaskFrame == UNCHANGED <<authVars, srvVars, wsVars, ctlVars, msdVars, sessVars, extVars,
                         sockets_lock, call, lockOrder, wsClosed, hidClears>>

NextTasks ==
    \/ \E t \in SysTasks, outcome \in BodyOutcomes :
           TaskEnds(t, outcome) /\ UNCHANGED clean /\ TaskFrame
    \/ \E k \in ShortTasks : ShortSpawn(k) /\ UNCHANGED clean /\ TaskFrame
    \/ \E k \in ShortTasks : ShortFinish(k) /\ UNCHANGED clean /\ TaskFrame
    \/ \E s \in Sessions : TaskSessionJoins(s) /\ UNCHANGED clean /\ TaskFrame
    \/ ShutdownStart /\ UNCHANGED clean /\ TaskFrame
    \/ ShutdownCancel /\ UNCHANGED clean /\ TaskFrame
    \/ ShutdownDisconnect /\ UNCHANGED clean /\ TaskFrame
    \/ \E s \in Sessions, hidFails \in BOOLEAN, raises \in CloseOutcomes :
           ShutdownRemove(s, hidFails, raises) /\ UNCHANGED clean /\ TaskFrame
    \/ CleanupStart /\ TaskFrame
    \/ \E outcome \in CleanupOutcomes : CleanupNext(outcome) /\ TaskFrame

TaskInit ==
    /\ task = [t \in SysTasks |-> RunningTask]
    /\ sigterms = 0
    /\ short = [k \in ShortTasks |-> "new"]
    /\ shut = [pc |-> "serving", short_snap |-> {}, short_at_cancel |-> {},
               left |-> {}, removed |-> {}, stopped_at_remove |-> TRUE,
               close_faults |-> {}, fault |-> None]
    /\ clean = NoCleanup

(***************************************************************************)
(* Session lifecycle: the message loop of Server.__ws_handler (374-396)    *)
(* and the dead-socket reaper Server.__poll_dead_sockets (663-669), beside *)
(* the replay and the pollers' broadcasts.  The reaper's removals are      *)
(* calls of __remove_socket: they take the steps of the registry's calls.  *)
(***************************************************************************)
\* the caller of __remove_socket that is the reaper task
ReaperCaller == 1

\* 667: ws.closed or ws._req is None or ws._req.transport is None
DeadSocketNever(ws, deadSet, closedSet) == FALSE

DeadSocket(ws, deadSet, closedSet) == ws \in deadSet \cup closedSet

\* for ws in list(self.__sockets) (666): the reaper takes the list
ReapScan ==
    /\ reap.pc = "scan"
    /\ reap' = [pc |-> "iter", todo |-> sockets]
    /\ UNCHANGED <<handled, replayLog, snapAt, wsVars, regVars>>

\* 667 is false for ws: the next session of the list
ReapSkip(ws) ==
    /\ reap.pc = "iter"
    /\ ws \in reap.todo
    /\ ~DeadSocket(ws, dead, wsClosed)
    /\ reap' = [reap EXCEPT !.todo = @ \ {ws}]
    /\ UNCHANGED <<handled, replayLog, snapAt, wsVars, regVars>>

\* 667 is true for ws: await self.__remove_socket(ws) (668)
ReapRemove(ws, hidFails) ==
    /\ reap.pc = "iter"
    /\ ws \in reap.todo
    /\ DeadSocket(ws, dead, wsClosed)
    /\ CallStart(ReaperCaller, "remove", ws, hidFails)
    /\ reap' = [pc |-> "removing", todo |-> reap.todo \ {ws}]
    /\ UNCHANGED <<handled, replayLog, snapAt, wsVars>>

\* __remove_socket returns to the reaper, or raises: an exception leaves
\* the loop and ends the task
ReapReturn ==
    /\ reap.pc = "removing"
    /\ call[ReaperCaller].pc = "done"
    /\ IF call[ReaperCaller].result = ""
       THEN /\ reap' = [reap EXCEPT !.pc = "iter"]
            /\ call' = [call EXCEPT ![ReaperCaller] = IdleCall]
       ELSE /\ reap' = [reap EXCEPT !.pc = "dead"]
            /\ call' = call
    /\ UNCHANGED <<handled, replayLog, snapAt, wsVars,
                   sockets, sockets_lock, lockOrder, wsClosed, hidClears>>

\* the list is exhausted: await asyncio.sleep(0.1) (669)
ReapSleep ==
    /\ reap.pc = "iter"
    /\ reap.todo = {}
    /\ reap' = [reap EXCEPT !.pc = "scan"]
    /\ UNCHANGED <<handled, replayLog, snapAt, wsVars, regVars>>

SessFrame == UNCHANGED <<authVars, srvVars, ctlVars, msdVars, taskVars, extVars>>

\* the steps of the reaper task
ReaperStep ==
    \/ ReapScan /\ SessFrame
    \/ \E ws \in Sessions : ReapSkip(ws) /\ SessFrame
    \/ \E ws \in Sessions, hidFails \in BOOLEAN : ReapRemove(ws, hidFails) /\ SessFrame
    \/ CallAcquire(ReaperCaller) /\ UNCHANGED <<wsVars, sessVars>> /\ SessFrame
    \/ CallClearEvents(ReaperCaller) /\ UNCHANGED <<wsVars, sessVars>> /\ SessFrame
    \/ CallRead(ReaperCaller) /\ UNCHANGED <<wsVars, sessVars>> /\ SessFrame
    \/ CallWrite(ReaperCaller) /\ UNCHANGED <<wsVars, sessVars>> /\ SessFrame
    \/ \E raises \in CloseOutcomes :
           CallClose(ReaperCaller, raises) /\ UNCHANGED <<wsVars, sessVars>> /\ SessFrame
    \/ CallRelease(ReaperCaller) /\ UNCHANGED <<wsVars, sessVars>> /\ SessFrame
    \/ ReapReturn /\ SessFrame
    \/ ReapSleep /\ SessFrame

NextSess ==
    \/ \E s \in Sessions : WsPrepare(s) /\ UNCHANGED sessVars /\ SessFrame
    \/ \E s \in Sessions : WsRegister(s) /\ UNCHANGED sessVars /\ SessFrame
    \/ \E s \in Sessions : WsMakeInfo(s) /\ UNCHANGED sessVars /\ SessFrame
    \/ \E s \in Sessions : WsStreamerState(s) /\ UNCHANGED sessVars /\ SessFrame
    \/ \E s \in Sessions : SessBroadcastStart(s) /\ SessFrame
    \/ \E b \in BroadcastIds : BroadcastSend(b) /\ UNCHANGED sessVars /\ SessFrame
    \/ \E s \in Sessions : SessReplayDone(s) /\ SessFrame
    \/ \E s \in Sessions : WsMessage(s) /\ SessFrame
    \/ \E s \in Sessions : WsLoopEnd(s) /\ SessFrame
    \/ \E s \in Sessions : TransportDies(s) /\ UNCHANGED sessVars /\ SessFrame
    \/ ReaperStep

SessInit ==
    /\ reap = [pc |-> "scan", todo |-> {}]
    /\ handled = [s \in Sessions |-> 0]
    /\ replayLog = [s \in Sessions |-> NoReplay]
    /\ snapAt = [b \in BroadcastIds |-> NoSnapAt]

(***************************************************************************)
(* The message loop of Server.__ws_handler (374-396) message by message,   *)
(* with the event handlers it awaits (398-430).  A client's messages wait  *)
(* in the order they arrived; the iterator gives the oldest.               *)
(***************************************************************************)
\* the messages a client sends: TEXT with an event_type and attributes that
\* pass or fail validation, or a message that is not TEXT
TextMsg(event_type, valid) ==
    [type |-> "TEXT", data |-> "object", event_type |-> event_type, valid |-> valid]

\* TEXT that json.loads rejects (377-379), and TEXT that is JSON but not an
\* object, e.g. a list: event.get (381) raises AttributeError
MalformedText == [type |-> "TEXT", data |-> "malformed", event_type |-> None, valid |-> FALSE]

ArrayText == [type |-> "TEXT", data |-> "array", event_type |-> None, valid |-> FALSE]

BinaryMsg == [type |-> "BINARY", data |-> None, event_type |-> None, valid |-> FALSE]

\* 399-403 (407-411, 415-419, 423-427): the fields of the event are read
\* and validated inside try; any exception returns without a HID call
ValidatedAny(msg) == TRUE

ValidatedOk(msg) == msg.valid

HidEvents == {"key", "mouse_move", "mouse_button", "mouse_wheel"}

Messages ==
    {TextMsg(k, TRUE) : k \in HidEvents \cup {"ping"}}
        \cup {TextMsg("key", FALSE), TextMsg("unknown", TRUE), BinaryMsg}
        \cup {MalformedText, ArrayText}

\* 382-393 and 398-430: what handling a TEXT message awaits: the pong
\* reply, the HID call of its event, or nothing (the validation failed at
\* 399-403, or the event is unknown and is logged at 393)
EffectOf(msg) ==
    IF msg.data # "object" THEN None
    ELSE IF msg.event_type = "ping" THEN "pong"
    ELSE IF msg.event_type \in HidEvents /\ ValidatedOk(msg)
    THEN "send_" \o msg.event_type \o "_event"
    ELSE None

\* 383: the pong goes to ws, the session the message came from
PongTargets(s, set) == {s}

\* 383-391: the handler awaits the reply or the event handler, and asks
\* the iterator for the next message when that has returned
NextAskedWhilePending(pc) == pc \in {"recv", "await"}

NextAsked(pc) == pc = "recv"

AtLoop == [pc |-> "recv", idx |-> 0, effect |-> None]

\* the client sends a message on its session
MsgArrive(s, msg) ==
    /\ Len(arrived[s]) < MaxArrivals
    /\ arrived' = [arrived EXCEPT ![s] = Append(@, msg)]
    /\ UNCHANGED <<msgPc, msgLog, outbox>>

\* 366-374: the session is registered, the replay is sent and the loop opens
MsgLoopOpen(s) ==
    /\ msgPc[s].pc = "new"
    /\ msgPc' = [msgPc EXCEPT ![s] = AtLoop]
    /\ UNCHANGED <<arrived, msgLog, outbox>>

\* 374-393: the iterator gives the oldest message not yet given.  A message
\* that is not TEXT breaks the loop (394-396); a TEXT message with nothing
\* to await is handled at once.
MsgReceive(s) ==
    /\ NextAsked(msgPc[s].pc)
    /\ msgPc[s].idx < Len(arrived[s])
    /\ LET i == msgPc[s].idx + 1
           msg == arrived[s][i]
       IN  IF msg.type # "TEXT"
           THEN /\ msgPc' = [msgPc EXCEPT ![s] = [pc |-> "returned", idx |-> i, effect |-> None]]
                /\ msgLog' = msgLog
           ELSE IF msg.data = "array"
           THEN /\ msgPc' = [msgPc EXCEPT ![s] = [pc |-> "raised", idx |-> i, effect |-> None]]
                /\ msgLog' = msgLog
           ELSE IF EffectOf(msg) = None
           THEN /\ msgPc' = [msgPc EXCEPT ![s] = [pc |-> "recv", idx |-> i, effect |-> None]]
                /\ msgLog' = [msgLog EXCEPT ![s] = Append(@, [idx |-> i, did |-> None])]
           ELSE /\ msgPc' = [msgPc EXCEPT ![s] = [pc |-> "await", idx |-> i,
                                                  effect |-> EffectOf(msg)]]
                /\ msgLog' = msgLog
    /\ UNCHANGED <<arrived, outbox>>

\* the awaited ws.send_str (383) or hid.send_*_event (404, 412, 420, 428)
\* returns, or raises: an exception leaves the loop and the handler
MsgAwaited(s, raises) ==
    /\ msgPc[s].pc = "await"
    /\ IF raises
       THEN /\ msgPc' = [msgPc EXCEPT ![s].pc = "raised"]
            /\ UNCHANGED <<msgLog, outbox>>
       ELSE /\ msgPc' = [msgPc EXCEPT ![s] = [pc |-> "recv", idx |-> @.idx, effect |-> None]]
            /\ msgLog' = [msgLog EXCEPT ![s] = Append(@, [idx |-> msgPc[s].idx,
                                                           did |-> msgPc[s].effect])]
            /\ outbox' = IF msgPc[s].effect = "pong"
                         THEN [t \in Sessions |->
                                  IF t \in PongTargets(s, {x \in Sessions : msgPc[x].pc # "new"})
                                  THEN Append(outbox[t], [from |-> s, idx |-> msgPc[s].idx])
                                  ELSE outbox[t]]
                         ELSE outbox
    /\ UNCHANGED arrived

MsgFrame ==
    UNCHANGED <<authVars, srvVars, regVars, wsVars, ctlVars, msdVars, taskVars, sessVars,
                joinedSince, admitted, plugVars>>

NextMsg ==
    \/ \E s \in Sessions, msg \in Messages : MsgArrive(s, msg) /\ MsgFrame
    \/ \E s \in Sessions : MsgLoopOpen(s) /\ MsgFrame
    \/ \E s \in Sessions : MsgReceive(s) /\ MsgFrame
    \/ \E s \in Sessions, raises \in BOOLEAN : MsgAwaited(s, raises) /\ MsgFrame

MsgInit ==
    /\ arrived = [s \in Sessions |-> <<>>]
    /\ msgPc = [s \in Sessions |-> [pc |-> "new", idx |-> 0, effect |-> None]]
    /\ msgLog = [s \in Sessions |-> <<>>]
    /\ outbox = [s \in Sessions |-> <<>>]

\* no /ws request has registered the session
NoAdmit == [by |-> None, good |-> FALSE]

(***************************************************************************)
(* The UNIFI GPIO driver: Plugin.run (plugins/ugpio/unifi.py, 153-195),    *)
(* one step per turn of its loop.  self.__state is a dict; the successful  *)
(* poll assigns into it (181), the failed poll binds a new dict (187), and *)
(* "prev_state = self.__state" (190) binds the same dict, no copy.  A dict *)
(* bound to prev_state alone is written by nobody.                         *)
(***************************************************************************)
Pins == {"1", "2"}

\* poe_enable of a port, as the controller reports it
PortValues == {"on", "off"}

AllUnknown == [p \in Pins |-> None]

\* prev_state: None (154), the dict self.__state is bound to, or another
\* dict with its content
PrevUnset == [kind |-> "unset", value |-> AllUnknown]
PrevSame == [kind |-> "same", value |-> AllUnknown]
PrevOther(map) == [kind |-> "other", value |-> map]

\* 179-181: the pins assigned before the poll ended
Assigned(old, ports, reached) == [p \in Pins |-> IF p \in reached THEN ports[p] ELSE old[p]]

\* 187: dict.fromkeys(self.__state, None), a new dict
FailedState(old) == [p \in Pins |-> None]

\* 190: prev_state is bound to the dict of self.__state
Remember(map) == PrevSame

\* 188: self.__state != prev_state; a dict equals itself
StateDiffers(new, sameDict, before, prevContent) ==
    IF before.kind = "unset" THEN TRUE
    ELSE IF sameDict THEN FALSE
    ELSE new # prevContent

\* one turn of the loop (155-195): the GET and the assignments of the pins
\* in reached; fails: an exception ended the try block (186-187)
UnifiPoll(ports, reached, fails) ==
    /\ polls < MaxPolls
    /\ fails <=> reached # Pins
    /\ LET assigned == Assigned(ustate, ports, reached)
           prevContent == IF prev_state.kind = "same" THEN assigned ELSE prev_state.value
           new == IF fails THEN FailedState(assigned) ELSE assigned
           sameDict == ~fails /\ prev_state.kind = "same"
           differs == StateDiffers(new, sameDict, prev_state, prevContent)
       IN  /\ ustate' = new
           /\ prev_state' = IF differs THEN Remember(new)
                             ELSE IF sameDict THEN prev_state
                             ELSE PrevOther(prevContent)
           /\ notified' = differs
    /\ afterPrev' = ustate
    /\ failed' = fails
    /\ polls' = polls + 1

\* register_input / register_output (103-109) and prepare (111-115): an
\* input is None, an output its initial state
GpioInit ==
    /\ ustate \in [Pins -> PortValues \cup {None}]
    /\ prev_state = PrevUnset
    /\ afterPrev = ustate
    /\ notified = FALSE
    /\ failed = FALSE
    /\ polls = 0

GpioIdle ==
    /\ ustate = AllUnknown
    /\ prev_state = PrevUnset
    /\ afterPrev = AllUnknown
    /\ notified = FALSE
    /\ failed = FALSE
    /\ polls = 0

NextGpio ==
    \/ \E ports \in [Pins -> PortValues] :
           UnifiPoll(ports, Pins, FALSE) /\ UNCHANGED <<coreVars, rfVars>>
    \/ \E ports \in [Pins -> PortValues], reached \in SUBSET Pins :
           UnifiPoll(ports, reached, TRUE) /\ UNCHANGED <<coreVars, rfVars>>

(***************************************************************************)
(* The Redfish API: RedfishApi.__init__ (71-150) builds self.__actions,    *)
(* RedfishApi.__action_handler (223-253) serves                            *)
(* POST /redfish/v1/Systems/{id}/Actions/{action}.  A GPIO channel is      *)
(* named <system>_<action name>; it is kept as the pair split_channel      *)
(* (88-93) makes of it.  check_string_in_list and the exposed_http wrapper *)
(* are outside the sources and modelled from their contract.               *)
(***************************************************************************)
BuiltinSystem == "pikvm"

ResetSet == "ComputerSystem.Reset"

AtxAction(name) == [call |-> name, channel |-> <<>>, state |-> None]

\* 105-118: cycle(c, delay, wait) pulses the channel, sw(c, state, wait)
\* switches it
CycleAction(ch) == [call |-> "pulse", channel |-> ch, state |-> None]

SwAction(ch, state) == [call |-> "switch", channel |-> ch, state |-> state]

\* 75-84: the built-in system's reset actions
BuiltinActionsSwapped ==
    [t \in {"On", "ForceOff", "GracefulShutdown", "ForceRestart", "ForceOn", "PushPowerButton"} |->
        CASE t = "On" -> AtxAction("power_on")
          [] t = "ForceOff" -> AtxAction("power_off")
          [] t = "GracefulShutdown" -> AtxAction("power_off_hard")
          [] t = "ForceRestart" -> AtxAction("power_reset_hard")
          [] t = "ForceOn" -> AtxAction("power_on")
          [] t = "PushPowerButton" -> AtxAction("click_power")]

BuiltinActions ==
    [t \in {"On", "ForceOff", "GracefulShutdown", "ForceRestart", "ForceOn", "PushPowerButton"} |->
        CASE t = "On" -> AtxAction("power_on")
          [] t = "ForceOff" -> AtxAction("power_off_hard")
          [] t = "GracefulShutdown" -> AtxAction("power_off")
          [] t = "ForceRestart" -> AtxAction("power_reset_hard")
          [] t = "ForceOn" -> AtxAction("power_on")
          [] t = "PushPowerButton" -> AtxAction("click_power")]

\* the output channels a configuration may have
GpioChannels == {<<"srv", "power">>, <<"srv", "cycle">>, <<"pikvm", "cycle">>, <<"lab", "led">>}

\* 126-150: what a channel adds to its system's reset actions
PowerOn == {"On", "ForceOn"}

PowerOff == {"ForceOff", "GracefulShutdown", "PushPowerButton"}

ChannelKeys(ch) ==
    IF ch[2] = "cycle" THEN {"ForceRestart"}
    ELSE IF ch[2] = "power" THEN PowerOn \cup PowerOff
    ELSE {}

ChannelAction(ch, t) ==
    IF ch[2] = "cycle" THEN CycleAction(ch)
    ELSE SwAction(ch, IF t \in PowerOn THEN "on" ELSE "off")

\* the systems of self.__actions after __init__: the built-in one and the
\* system of every channel (88-93)
KnownSystems(channels) == {BuiltinSystem} \cup {ch[1] : ch \in channels}

\* self.__actions[sys]["ComputerSystem.Reset"] after __init__: the built-in
\* table for the built-in system, updated by the system's channels
ResetActions(channels, sys) ==
    LET own == {ch \in channels : ch[1] = sys}
        added == UNION {ChannelKeys(ch) : ch \in own}
        base == IF sys = BuiltinSystem THEN DOMAIN BuiltinActions ELSE {}
    IN  [t \in base \cup added |->
            IF t \in added
            THEN ChannelAction(CHOOSE ch \in own : t \in ChannelKeys(ch), t)
            ELSE BuiltinActions[t]]

\* the body of the request: no JSON, a JSON object without ResetType, or
\* one with it
NoJson == [json |-> FALSE, has |-> FALSE, reset |-> ""]

NoResetType == [json |-> TRUE, has |-> FALSE, reset |-> ""]

WithResetType(t) == [json |-> TRUE, has |-> TRUE, reset |-> t]

Bodies == {NoJson, NoResetType}
          \cup {WithResetType(t) : t \in DOMAIN BuiltinActions \cup {"Nmi"}}

RedfishSystems == {"pikvm", "srv", "lab", "nosuch"}

RedfishActionNames == {ResetSet, "ComputerSystem.Bogus"}

\* validators.check_string_in_list: the argument when it is one of the
\* variants, ValidatorError otherwise
check_string_in_list(arg, variants) == IF arg \in variants THEN "" ELSE "ValidatorError"

\* how the awaited action ends: it returns or raises
ActionOutcomes(act) ==
    IF act.channel = <<>> THEN {"", "AtxIsBusyError", "AtxOperationError"}
    ELSE {"", "RuntimeError"}

\* 226-253: the exception the handler raises ("" for none) before it
\* invokes anything; KeyError of an unknown system (227) is outside the try
ActionRefused(channels, req) ==
    IF req.system \notin KnownSystems(channels) THEN "KeyError"
    ELSE IF check_string_in_list(req.action, {ResetSet}) # "" THEN "ValidatorError"
    ELSE IF ~req.body.json \/ ~req.body.has THEN "HttpError"
    ELSE check_string_in_list(req.body.reset, DOMAIN ResetActions(channels, req.system))

\* HttpError("Missing Redfish Action", 400) carries its status; the other
\* exceptions are answered by the table of the wrapper
RedfishStatus(err) == IF err = "HttpError" THEN 400 ELSE StatusOf(err)

NoRedfish == [system |-> None, action |-> None, body |-> NoJson]

\* one POST /redfish/v1/Systems/{id}/Actions/{action}
RedfishAction(system, action, body, outcome) ==
    /\ rfRequest' = [system |-> system, action |-> action, body |-> body]
    /\ LET err == ActionRefused(rfChannels, rfRequest')
       IN  IF err # ""
           THEN /\ outcome = ""
                /\ rfInvoked' = <<>>
                /\ rfResponse' = [status |-> RedfishStatus(err), error |-> err]
           ELSE LET act == ResetActions(rfChannels, system)[body.reset]
                IN  /\ outcome \in ActionOutcomes(act)
                    /\ rfInvoked' = <<[action |-> act, wait |-> FALSE]>>
                    /\ rfResponse' = [status |-> IF outcome = "" THEN 204
                                                  ELSE RedfishStatus(outcome),
                                       error |-> outcome]
    /\ <<rfRequest', rfResponse'>> # <<rfRequest, rfResponse>>
    /\ UNCHANGED rfChannels

RedfishInit ==
    /\ rfChannels \in SUBSET GpioChannels
    /\ rfRequest = NoRedfish
    /\ rfResponse = [status |-> 0, error |-> ""]
    /\ rfInvoked = <<>>

RedfishIdle ==
    /\ rfChannels = {}
    /\ rfRequest = NoRedfish
    /\ rfResponse = [status |-> 0, error |-> ""]
    /\ rfInvoked = <<>>

NextRedfish ==
    \E system \in RedfishSystems, action \in RedfishActionNames, body \in Bodies,
       outcome \in {"", "AtxIsBusyError", "AtxOperationError", "RuntimeError"} :
        RedfishAction(system, action, body, outcome) /\ UNCHANGED <<coreVars, gpioVars>>

PlugInit == GpioIdle /\ RedfishIdle

ExtInit ==
    /\ MsgInit /\ joinedSince = {} /\ admitted = [s \in Sessions |-> NoAdmit]
    /\ PlugInit

AuthInit ==
    /\ authTokens = {}
    /\ request = [op |-> None, user |-> "", passwd |-> "", token |-> "",
                   cookieValid |-> FALSE]
    /\ response = Json(0, "", FALSE)
    /\ nRequests = 0

SrvInit ==
    /\ reset_streamer = FALSE
    /\ streamer_params = InitialParams

RegInit ==
    /\ sockets = {}
    /\ sockets_lock = NoHolder
    /\ call = [c \in Callers |-> IdleCall]
    /\ lockOrder = <<>>
    /\ wsClosed = {}
    /\ hidClears = 0

WsInit ==
    /\ wsPc = [s \in Sessions |-> "new"]
    /\ dead = {}
    /\ domVer = 0
    /\ pollSeen = 0
    /\ wsSnap = [s \in Sessions |-> NoSnap]
    /\ bcast = [b \in BroadcastIds |-> NoBroadcast]
    /\ inbox = <<>>
    /\ escaped = {}

WsIdle == WsInit /\ focus = "hid_state" /\ observed = 1

InitAuth == AuthInit /\ SrvInit /\ RegInit /\ WsIdle /\ CtlIdle /\ MsdInit /\ TaskInit /\ SessInit /\ ExtInit

\* the credential a request presents, as the gate reads it (170-188): the
\* X-KVMD-User header when it is there, else the auth_token cookie; good when
\* it is well formed and the auth manager accepts it
Presented(user, passwd, token, toks) ==
    IF user # ""
    THEN [by |-> "header",
          good |-> valid_user(user) /\ valid_passwd(passwd) /\ authorize(user, passwd)]
    ELSE IF token # ""
    THEN [by |-> "cookie", good |-> valid_auth_token(token) /\ check(token, toks) # None]
    ELSE [by |-> "absent", good |-> FALSE]

\* 358-366: GET /ws through _exposed.wrapper; the handler prepares the
\* websocket (101 Switching Protocols) and registers it
DispatchWs(s, user, passwd, token) ==
    /\ nRequests < MaxRequests
    /\ nRequests' = nRequests + 1
    /\ s \notin sockets
    /\ request' = [op |-> "ws", user |-> user, passwd |-> passwd, token |-> token,
                    cookieValid |-> check(token, authTokens) # None]
    /\ LET gate == IF AuthRequired("ws") THEN AuthGate(user, passwd, token, authTokens)
                   ELSE "pass"
       IN IF gate # "pass"
          THEN /\ response' = Json(StatusOf(gate), gate, FALSE)
               /\ UNCHANGED <<sockets, admitted>>
          ELSE /\ response' = Json(101, "", TRUE)
               /\ sockets' = SocketsAdd(sockets, s)
               /\ admitted' = [admitted EXCEPT
                                  ![s] = Presented(user, passwd, token, authTokens)]
    /\ UNCHANGED <<authTokens, srvVars, sockets_lock, call, lockOrder, wsClosed, hidClears,
                   wsVars, ctlVars, msdVars, taskVars, sessVars, msgVars, joinedSince,
                   plugVars>>

NextAuth ==
    \/ \E s \in Sessions, user \in HeaderUsers, passwd \in HeaderPasswds,
          token \in CookieTokens :
           DispatchWs(s, user, passwd, token)
    \/ \E op \in Ops, user \in HeaderUsers, passwd \in HeaderPasswds,
          token \in CookieTokens, newTok \in LoginTokens :
           Dispatch(op, user, passwd, token, newTok)
    \/ \E op \in DomainOps, user \in HeaderUsers, passwd \in HeaderPasswds,
          token \in CookieTokens :
           \E raised \in DomainErrors(op) : DispatchDomain(op, user, passwd, token, raised)

SpecAuth == InitAuth /\ [][NextAuth]_vars

InitReg == AuthInit /\ SrvInit /\ RegInit /\ WsIdle /\ CtlIdle /\ MsdInit /\ TaskInit /\ SessInit /\ ExtInit

SpecReg == InitReg /\ [][NextReg]_vars

InitWs ==
    /\ AuthInit /\ SrvInit /\ RegInit /\ WsInit /\ CtlIdle /\ MsdInit /\ TaskInit /\ SessInit /\ ExtInit
    /\ focus \in Domains
    /\ observed \in Sessions

SpecWs == InitWs /\ [][NextWs]_vars

InitCtl ==
    AuthInit /\ SrvInit /\ RegInit /\ WsIdle /\ CtlInit /\ MsdInit /\ TaskInit /\ SessInit /\ ExtInit /\ follows = "conn"

SpecCtl == InitCtl /\ [][NextCtl]_vars

InitDrift ==
    AuthInit /\ SrvInit /\ RegInit /\ WsIdle /\ CtlInit /\ MsdInit /\ TaskInit /\ SessInit /\ ExtInit /\ follows = "params"

SpecDrift == InitDrift /\ [][NextCtl]_vars

(***************************************************************************)
(* The controller over unbounded time.  The code compares the clock with   *)
(* the deadline (650) and adds the delay to the clock (649); nothing else  *)
(* of their values enters it, so when the clock would pass MaxTime both    *)
(* are moved back by the same amount (a deadline long past stays at 0,     *)
(* below every clock value).  No history of drops or changes is kept.      *)
(***************************************************************************)
TimeShift(t) == IF t > MaxTime THEN t - MaxTime ELSE 0

Shifted(t, shift) == IF t > shift THEN t - shift ELSE 0

\* 661: await asyncio.sleep(0.1) returns after d units of time
CtlSleepOn(d) ==
    /\ ctlPc = "sleep"
    /\ now' = now + d - TimeShift(now + d)
    /\ shutdown_at' = Shifted(shutdown_at, TimeShift(now + d))
    /\ ctlPc' = "conn"
    /\ tick' = NoTick
    /\ calls' = <<>>
    /\ UNCHANGED <<prev, cur, running, applied, dropAt,
                   cancelled, chg, sockets, reset_streamer, streamer_params>>

\* the steps of the __stream_controller task
ControllerStep ==
    \/ CtlConn /\ CtlFrame
    \/ CtlDrift /\ UNCHANGED joinedSince /\ CtlFrame
    \/ CtlRestart /\ UNCHANGED joinedSince /\ CtlFrame
    \/ CtlRestarted /\ UNCHANGED joinedSince /\ CtlFrame
    \/ \E d \in 1..2 : CtlSleepOn(d) /\ UNCHANGED joinedSince /\ CtlFrame

NextIdle ==
    \/ ControllerStep
    \/ \E s \in Sessions : SessionJoins(s) /\ CtlFrame
    \/ \E s \in Sessions : SessionLeaves(s) /\ UNCHANGED joinedSince /\ CtlFrame
    \/ \E q \in QualityValues \cup {Absent, Invalid},
          f \in FpsValues \cup {Absent, Invalid} :
           SetParamsRequest(q, f) /\ UNCHANGED joinedSince /\ CtlFrame
    \/ ResetRequest /\ UNCHANGED joinedSince /\ CtlFrame

InitIdle ==
    /\ AuthInit /\ SrvInit /\ RegInit /\ WsIdle /\ CtlInit /\ MsdInit /\ TaskInit /\ SessInit
    /\ ExtInit /\ follows = "none"

\* the event loop runs the controller task whenever it can go on: its
\* sleep and the streamer calls it awaits return
SpecIdle == InitIdle /\ [][NextIdle]_vars /\ WF_vars(ControllerStep)

InitUpload == AuthInit /\ SrvInit /\ RegInit /\ WsIdle /\ CtlIdle /\ MsdInit /\ TaskInit /\ SessInit /\ ExtInit

SpecUpload == InitUpload /\ [][NextUpload]_vars

InitTasks == AuthInit /\ SrvInit /\ RegInit /\ WsIdle /\ CtlIdle /\ MsdInit /\ TaskInit /\ SessInit /\ ExtInit

SpecTasks == InitTasks /\ [][NextTasks]_vars

\* the event loop runs every task that is ready, and a sleep ends: the
\* reaper is not left waiting forever at a step it can take
InitSess ==
    /\ AuthInit /\ SrvInit /\ RegInit /\ WsInit /\ CtlIdle /\ MsdInit /\ TaskInit /\ SessInit /\ ExtInit
    /\ focus = "hid_state"
    /\ observed = 1

SpecSess == InitSess /\ [][NextSess]_vars /\ WF_vars(ReaperStep)

InitMsg ==
    /\ AuthInit /\ SrvInit /\ RegInit /\ WsIdle /\ CtlIdle /\ MsdInit /\ TaskInit /\ SessInit
    /\ ExtInit

SpecMsg == InitMsg /\ [][NextMsg]_vars

InitGpio ==
    /\ AuthInit /\ SrvInit /\ RegInit /\ WsIdle /\ CtlIdle /\ MsdInit /\ TaskInit /\ SessInit
    /\ MsgInit /\ joinedSince = {} /\ admitted = [s \in Sessions |-> NoAdmit]
    /\ GpioInit /\ RedfishIdle

SpecGpio == InitGpio /\ [][NextGpio]_vars

InitRedfish ==
    /\ AuthInit /\ SrvInit /\ RegInit /\ WsIdle /\ CtlIdle /\ MsdInit /\ TaskInit /\ SessInit
    /\ MsgInit /\ joinedSince = {} /\ admitted = [s \in Sessions |-> NoAdmit]
    /\ GpioIdle /\ RedfishInit

SpecRedfish == InitRedfish /\ [][NextRedfish]_vars

(***************************************************************************)
(* C1.  As stated: a request to an auth_required operation with no         *)
(* X-KVMD-User header and no valid auth_token cookie is answered 401 and   *)
(* the handler is not invoked.  A cookie that is present but not valid is  *)
(* answered 403 (or 400 when malformed), so the statement fails.           *)
(***************************************************************************)
C1_Original ==
    (request.op # None /\ AuthRequired(request.op)
        /\ request.user = "" /\ ~request.cookieValid)
    => (response.status = 401 /\ ~response.invoked)

\* C1 as amended: with no X-KVMD-User header and no auth_token cookie at all
\* the response is 401; with no header and no valid cookie the response is
\* 401, 403 or 400 and in every such case the handler is not invoked.
C1_NoCredentials ==
    (request.op # None /\ AuthRequired(request.op) /\ request.user = "")
    => /\ request.token = "" => (response.status = 401 /\ ~response.invoked)
       /\ ~request.cookieValid => (response.status \in {400, 401, 403}
                                     /\ ~response.invoked)

C1_Witness ==
    /\ request.op = "streamer_reset" /\ request.user = "" /\ request.token = ""
    /\ response.status = 401 /\ ~response.invoked
    /\ authTokens # {} /\ ~reset_streamer


(***************************************************************************)
(* C2.  No lost update: whenever no call is inside the lock, the           *)
(* membership of the registry is the result of applying the calls that     *)
(* have acquired the lock so far one after the other, in the order in      *)
(* which they acquired it (a remove whose clear_events raised, or whose    *)
(* session is not a member, changes nothing).                              *)
(***************************************************************************)
RECURSIVE SerialResult(_)
SerialResult(order) ==
    IF order = <<>> THEN {}
    ELSE LET before == SerialResult(SubSeq(order, 1, Len(order) - 1))
             last == order[Len(order)]
         IN CASE last.op = "register" -> before \cup {last.ws}
              [] last.op = "remove" /\ ~last.hidFails -> before \ {last.ws}
              [] OTHER -> before

C2_NoLostUpdate ==
    sockets_lock = NoHolder => sockets = SerialResult(lockOrder)

C2_Witness ==
    /\ \A c \in Callers : call[c].pc = "done"
    /\ \E i, j \in 1..Len(lockOrder) :
          /\ i < j
          /\ lockOrder[i].op = "register" /\ lockOrder[j].op = "remove"
          /\ lockOrder[i].ws = lockOrder[j].ws /\ ~lockOrder[j].hidFails
    /\ \E i \in 1..Len(lockOrder) :
          lockOrder[i].op = "register" /\ lockOrder[i].ws \in sockets

(***************************************************************************)
(* C3.  A broadcast whose send to one session fails still sends the event  *)
(* to every other session of its snapshot, and raises nothing to its       *)
(* caller: when the broadcast has returned, every session of the snapshot  *)
(* whose own send did not fail was sent the event (the observed session    *)
(* has it in its stream), and the broadcast is not among those that        *)
(* raised.                                                                 *)
(***************************************************************************)
InInbox(ev) == \E i \in 1..Len(inbox) : inbox[i] = ev

C3_BroadcastTolerant ==
    \A b \in BroadcastIds :
        bcast[b].phase = "done"
        => /\ (bcast[b].targets \ bcast[b].failed) \subseteq bcast[b].sent
           /\ observed \in (bcast[b].targets \ bcast[b].failed) => InInbox(EventOf(b))
           /\ b \notin escaped

C3_Witness ==
    \E b \in BroadcastIds :
        /\ bcast[b].phase = "done"
        /\ bcast[b].failed # {}
        /\ observed \in bcast[b].sent
        /\ InInbox(EventOf(b))
        /\ \E k \in bcast[b].failed : k < observed

(***************************************************************************)
(* C10.  Replay before incremental: every incremental event of the domain  *)
(* in the stream of a session comes after the full-state replay of that    *)
(* session's own connect.                                                  *)
(***************************************************************************)
C10_ReplayBeforeIncremental ==
    \A i \in 1..Len(inbox) :
        inbox[i].kind = "incr"
        => \E j \in 1..(i - 1) : inbox[j].kind = "replay" /\ inbox[j].origin = observed

(***************************************************************************)
(* C4.  A tick that sees the session count go from 0 to at least 1 while   *)
(* the streamer reports not running starts the streamer in that tick, and  *)
(* the first call of the tick is start with the desired parameters (and    *)
(* without no_init_restart).                                               *)
(***************************************************************************)
C4_StartOnFirstSession ==
    (ctlPc # "conn" /\ tick.prev = 0 /\ tick.cur > 0 /\ ~tick.ran)
    => /\ Len(calls) >= 1
       /\ calls[1] = StartCall(tick.desired, FALSE, "conn")

C4_Witness ==
    /\ ctlPc = "drift" /\ tick.prev = 0 /\ tick.cur > 0 /\ ~tick.ran
    /\ calls = <<StartCall(tick.desired, FALSE, "conn")>>
    /\ tick.desired # InitialParams
    /\ running /\ applied = tick.desired

ConnStop == \E i \in 1..Len(calls) : calls[i] = StopCall("conn")

(***************************************************************************)
(* C5.  A tick that sees the count drop from >= 1 to 0 at time T arms the  *)
(* deadline T + ShutdownDelay and stops nothing; the connection-driven     *)
(* stop is issued only in a tick that sees 0 sessions at a time later than *)
(* T + ShutdownDelay with the streamer running, no tick since T having     *)
(* seen a session; and every such tick issues it.                          *)
(***************************************************************************)
C5_StopAfterGrace ==
    ctlPc # "conn"
    => /\ (tick.prev > 0 /\ tick.cur = 0)
            => (shutdown_at = tick.now + ShutdownDelay /\ dropAt = tick.now /\ ~ConnStop)
       /\ ConnStop => /\ dropAt # NoDrop /\ tick.cur = 0 /\ tick.ran
                       /\ tick.now > dropAt + ShutdownDelay
       /\ (dropAt # NoDrop /\ tick.cur = 0 /\ tick.ran
              /\ tick.now > dropAt + ShutdownDelay) => ConnStop

C5_Witness ==
    /\ ctlPc = "drift" /\ ConnStop /\ ~running
    /\ tick.now > dropAt + ShutdownDelay + 1

(***************************************************************************)
(* C6.  A tick that sees a session issues no connection-driven stop and    *)
(* voids the armed deadline; after a reconnect seen before the deadline,   *)
(* a stop is issued only past a deadline armed afresh, counted from the    *)
(* tick that saw the later drop.                                           *)
(***************************************************************************)
C6_ReconnectCancels ==
    ctlPc # "conn"
    => /\ tick.cur > 0 => (~ConnStop /\ dropAt = NoDrop)
       /\ ConnStop => /\ dropAt # NoDrop
                       /\ shutdown_at = dropAt + ShutdownDelay
                       /\ tick.now > shutdown_at

C6_Witness ==
    /\ cancelled /\ ConnStop /\ ctlPc = "drift"
    /\ shutdown_at = dropAt + ShutdownDelay

RECURSIVE ChunkCalls(_, _)
ChunkCalls(name, stream) ==
    IF stream = <<>> THEN <<>>
    ELSE <<ChunkCall(name, Head(stream))>> \o ChunkCalls(name, Tail(stream))

RECURSIVE SumOf(_)
SumOf(stream) == IF stream = <<>> THEN 0 ELSE Head(stream) + SumOf(Tail(stream))

(***************************************************************************)
(* C8.  An upload answered with 200 has made exactly these MSD calls, in   *)
(* this order: write_image_info(name, False), one write_image_chunk per    *)
(* chunk of the stream in stream order, and one write_image_info(name,     *)
(* True) after the last chunk; its response carries that name and a size   *)
(* equal to the sum of the sizes of the chunks.                            *)
(***************************************************************************)
C8_UploadForwardsInOrder ==
    \A u \in Uploaders :
        (Followed(u) /\ up[u].pc = "done" /\ up[u].status = 200)
        => /\ up[u].calls = <<InfoCall(up[u].image_name, FALSE)>>
                              \o ChunkCalls(up[u].image_name, up[u].stream)
                              \o <<InfoCall(up[u].image_name, TRUE)>>
           /\ up[u].image = ImageResult(up[u].image_name, SumOf(up[u].stream))
           /\ MsdImageNameOk(up[u].image_name)

C8_Witness ==
    \E u \in Uploaders :
        /\ up[u].pc = "done" /\ up[u].status = 200
        /\ up[u].stream = <<2, 1>>
        /\ up[u].image = ImageResult("disk.img", 3)
        /\ Len(up[u].calls) = 4

(***************************************************************************)
(* C9.  An upload that has ended, on whichever path (busy, missing or      *)
(* invalid name, missing data field, a failed MSD call or read before or   *)
(* after any chunk, success), does not hold the MSD lock: the lock is held *)
(* only by an upload still in progress, and a select is refused as busy    *)
(* only by such an upload.                                                 *)
(***************************************************************************)
C9_LockReleasedOnEveryExit ==
    /\ \A u \in Uploaders : up[u].pc \notin InProgress => msd_lock # u
    /\ selected.status = 409 => selected.blocked_by = "running"

C9_Witness ==
    /\ \E u \in Uploaders : FailedAfterChunk(up[u]) /\ up[u].exit = "write"
    /\ selected.status = 200 /\ selected.after
    /\ msd_lock = MsdFree

Died(t) == task[t].state = "done" /\ task[t].how \in {"return", "raise"}

(***************************************************************************)
(* C11.  A system task whose body has returned or has raised an exception  *)
(* other than a cancellation has, in both cases alike, logged the failure  *)
(* and sent SIGTERM to the server's own process: one signal per such task, *)
(* and no such task has ended without one.                                 *)
(***************************************************************************)
C11_TaskDeathEscalates ==
    /\ \A t \in SysTasks : Died(t) => (task[t].signalled /\ task[t].logged)
    /\ sigterms >= Cardinality({t \in SysTasks : Died(t)})

C11_Witness ==
    /\ \E t \in SysTasks : task[t].how = "return" /\ task[t].signalled
    /\ \E t \in SysTasks : task[t].how = "raise" /\ task[t].signalled
    /\ sigterms = 2

(***************************************************************************)
(* C12.  A system task that was cancelled at shutdown and has stopped has  *)
(* sent no signal and reported no fault, and a system task that has ended  *)
(* without sending the signal was cancelled: the signals sent are exactly  *)
(* those of the tasks that were not ended by cancellation.                 *)
(***************************************************************************)
C12_CancelIsSilent ==
    /\ \A t \in SysTasks :
          (task[t].state = "done" /\ (task[t].cancel \/ task[t].how = "cancel"))
          => /\ ~task[t].signalled /\ ~task[t].logged
             /\ task[t].cancel /\ task[t].how = "cancel"
    /\ \A t \in SysTasks :
          (task[t].state = "done" /\ ~task[t].signalled) => task[t].how = "cancel"
    /\ sigterms = Cardinality({t \in SysTasks : task[t].signalled})

C12_Witness ==
    /\ \A t \in SysTasks : task[t].state = "done" /\ task[t].how = "cancel"
    /\ sigterms = 0
    /\ shut.pc = "done"

(***************************************************************************)
(* C13.  Shutdown order: system tasks are cancelled only when every short  *)
(* task that was pending at the start of shutdown has finished, and then   *)
(* all of them are; sessions are removed by the shutdown handler only when *)
(* every system task has stopped.                                          *)
(***************************************************************************)
C13_ShutdownOrder ==
    /\ (\E t \in SysTasks : task[t].cancel)
         => /\ shut.pc \notin {"serving", "wait_short"}
            /\ shut.short_at_cancel = {}
            /\ shut.short_snap \cap PendingShort = {}
    /\ shut.pc \notin {"serving", "wait_short"}
         => \A t \in SysTasks : task[t].cancel \/ task[t].state = "done"
    /\ shut.pc \in {"disconnect", "done", "failed"}
         => \A t \in SysTasks : task[t].state = "done"
    /\ shut.removed # {}
         => /\ shut.stopped_at_remove
            /\ shut.pc \in {"disconnect", "done", "failed"}

C13_Witness ==
    /\ shut.pc = "done"
    /\ shut.removed = Sessions
    /\ shut.short_snap # {}
    /\ \E t \in SysTasks : task[t].how = "cancel"
    /\ sockets = {}

\* the request presents credentials and they do not pass the gate
CredentialsFail(r) ==
    IF r.user # ""
    THEN ~(valid_user(r.user) /\ valid_passwd(r.passwd) /\ authorize(r.user, r.passwd))
    ELSE r.token # "" /\ ~r.cookieValid

\* the credentials the gate looks at are accepted by their validators
CredentialsWellFormed(r) ==
    IF r.user # "" THEN valid_user(r.user) /\ valid_passwd(r.passwd)
    ELSE valid_auth_token(r.token)

(***************************************************************************)
(* C14.  As stated: a request to an auth_required operation that presents  *)
(* credentials (the user/passwd headers, or the cookie token) which do not *)
(* pass is answered 403 and the handler is not invoked.                    *)
(***************************************************************************)
C14_Original ==
    (request.op # None /\ AuthRequired(request.op) /\ CredentialsFail(request))
    => (response.status = 403 /\ ~response.invoked)

\* C14 as amended: such a request never reaches the handler; it is answered
\* 403 when the credentials are well-formed and rejected by the auth
\* manager, and 400 when a validator rejects them as malformed.
C14_RejectedCredentials ==
    (request.op # None /\ AuthRequired(request.op) /\ CredentialsFail(request))
    => /\ ~response.invoked
       /\ response.status = IF CredentialsWellFormed(request) THEN 403 ELSE 400

C14_Witness ==
    /\ request.op = "streamer_reset"
    /\ request.user = "guest" /\ request.passwd = "pw"
    /\ response.status = 403 /\ ~response.invoked
    /\ ~reset_streamer

(***************************************************************************)
(* C15.  The response to a request follows the fixed table: an ATX or MSD  *)
(* busy error gives 409; a validation error and an ATX or MSD operation    *)
(* error give 400; Unauthorized gives 401; Forbidden gives 403; any other  *)
(* exception gets none of these responses and leaves the wrapper uncaught  *)
(* (status 500 in the model); no error gives 200 (101 when the request is  *)
(* the websocket upgrade).                                                 *)
(***************************************************************************)
C15_ErrorTable ==
    request.op # None
    => /\ response.error \in {"AtxIsBusyError", "MsdIsBusyError"}
            => response.status = 409
       /\ response.error \in {"ValidatorError", "AtxOperationError", "MsdOperationError"}
            => response.status = 400
       /\ response.error = "UnauthorizedError" => response.status = 401
       /\ response.error = "ForbiddenError" => response.status = 403
       /\ response.error = "" => response.status = IF request.op = "ws" THEN 101 ELSE 200
       /\ response.error \notin {"", "AtxIsBusyError", "MsdIsBusyError", "ValidatorError",
                                 "AtxOperationError", "MsdOperationError",
                                 "UnauthorizedError", "ForbiddenError"}
            => response.status = 500

C15_Witness ==
    /\ request.op = "msd_connect"
    /\ response = Json(409, "MsdIsBusyError", TRUE)
    /\ request.user = "admin" /\ request.passwd = "pw"

RemoveSteps == <<"clear", "discard", "close">>

(***************************************************************************)
(* C16.  A remove call holds the registry lock through all its steps; the  *)
(* steps it has made are a beginning of: clear the HID events, discard the *)
(* session, close its transport; an exception raised by the close is       *)
(* swallowed (the call raises nothing), except a cancellation, which the   *)
(* call raises to its caller.                                              *)
(***************************************************************************)
C16_RemoveOrder ==
    \A c \in Callers :
        call[c].op = "remove"
        => /\ call[c].pc \in {"clear", "read", "write", "close", "release"}
                => sockets_lock = c
           /\ Len(call[c].steps) <= 3
           /\ call[c].steps = SubSeq(RemoveSteps, 1, Len(call[c].steps))
           /\ call[c].close = "Exception" => call[c].result = ""
           /\ call[c].close = "CancelledError" => call[c].result = "CancelledError"
           /\ call[c].close = "" => (call[c].ws \in wsClosed /\ call[c].result = "")

C16_Witness ==
    \E c \in Callers :
        /\ call[c].op = "remove" /\ call[c].pc = "done"
        /\ call[c].steps = RemoveSteps /\ call[c].close = "CancelledError"
        /\ call[c].result = "CancelledError"
        /\ call[c].ws \notin sockets /\ call[c].ws \notin wsClosed
        /\ sockets_lock = NoHolder /\ hidClears = 1

(***************************************************************************)
(* C17.  Every registered session whose transport has died, a session      *)
(* whose message loop has ended included, is eventually removed from the   *)
(* registry by the dead-socket reaper, unless the reaper task has ended.   *)
(***************************************************************************)
C17_DeadSessionReaped ==
    \A s \in Sessions :
        (s \in sockets /\ (s \in dead \/ wsPc[s] = "returned"))
            ~> (s \notin sockets \/ reap.pc = "dead")

\* the reaper has removed a session whose message loop had ended, by a call of
\* __remove_socket that took all its steps, and keeps running
C17_Witness ==
    \E s \in Sessions :
        /\ wsPc[s] = "returned" /\ s \in dead /\ s \notin sockets /\ s \in wsClosed
        /\ reap.pc = "removing"
        /\ call[ReaperCaller].op = "remove" /\ call[ReaperCaller].ws = s
        /\ call[ReaperCaller].pc = "done" /\ call[ReaperCaller].steps = RemoveSteps
        /\ call[ReaperCaller].result = ""

(***************************************************************************)
(* C18.  A session's handler processes a message of its client only after  *)
(* the session was registered and the replay of the domain's full state    *)
(* (one of the five broadcasts of the gather, for each domain) has         *)
(* returned; a session whose transport is alive has then received it.      *)
(***************************************************************************)
C18_ReplayBeforeMessages ==
    \A s \in Sessions :
        handled[s] > 0
        => /\ wsPc[s] \in {"loop", "returned"}
           /\ replayLog[s].done
           /\ s \notin dead => (s \in sockets /\ replayLog[s].sent)
           /\ (s = observed /\ s \notin dead)
                  => \E i \in 1..Len(inbox) : inbox[i].kind = "replay" /\ inbox[i].origin = s

C18_Witness ==
    \E s \in Sessions :
        /\ handled[s] = MaxMsgs /\ wsPc[s] = "loop" /\ s \notin dead /\ s = observed
        /\ replayLog[s].sent
        /\ inbox # <<>> /\ inbox[1].kind = "replay" /\ inbox[1].origin = s

(***************************************************************************)
(* C19.  A broadcast sends to the snapshot of the registry it took when it *)
(* started, less the sessions closed at that time: every send it attempts  *)
(* goes to a member of the snapshot, so a session registered later is not  *)
(* sent the event and a session closed at the snapshot is not tried; a     *)
(* member removed since is still tried, and the broadcast does not raise.  *)
(***************************************************************************)
C19_BroadcastToSnapshot ==
    \A b \in BroadcastIds :
        bcast[b].phase \in {"sending", "done"}
        => /\ bcast[b].targets = snapAt[b].members \ snapAt[b].closed
           /\ (bcast[b].sent \cup bcast[b].failed) \subseteq bcast[b].targets
           /\ bcast[b].sent \cap bcast[b].failed = {}
           /\ (bcast[b].phase = "done" /\ bcast[b].targets # {})
                  => (bcast[b].sent \cup bcast[b].failed) = bcast[b].targets
           /\ b \notin escaped

\* a broadcast has returned; one session of its snapshot was removed before
\* the send, and another was registered after the snapshot and got nothing
C19_Witness ==
    \E b \in BroadcastIds, r, n \in Sessions :
        /\ bcast[b].phase = "done"
        /\ r \in bcast[b].targets /\ r \notin sockets /\ r \in bcast[b].failed
        /\ n \in sockets /\ n \notin snapAt[b].members
        /\ n \notin bcast[b].sent \cup bcast[b].failed
        /\ b \notin escaped

(***************************************************************************)
(* C20.  An upload makes a write call to the mass storage (write_image_info *)
(* or write_image_chunk) only when the first field of its body was         *)
(* image_name with a valid name and the second field was image_data; the   *)
(* calls carry that name.                                                  *)
(***************************************************************************)
WritePositions == {"info", "read", "write", "final"}

C20_NoWriteBeforeValidation ==
    \A u \in Uploaders :
        (up[u].calls # <<>> \/ up[u].pc \in WritePositions)
        => /\ MsdImageNameOk(up[u].image_name)
           /\ Followed(u)
                => /\ Len(up[u].fields) = 2
                   /\ up[u].fields[1].name = "image_name"
                   /\ MsdImageNameOk(up[u].fields[1].value)
                   /\ up[u].image_name = up[u].fields[1].value
                   /\ up[u].fields[2].name = "image_data"
                   /\ \A i \in 1..Len(up[u].calls) :
                          /\ up[u].calls[i].op \in {"write_image_info", "write_image_chunk"}
                          /\ up[u].calls[i].name = up[u].fields[1].value

C20_Witness ==
    \E u \in Uploaders :
        /\ Followed(u) /\ up[u].pc = "done" /\ up[u].status = 200
        /\ Len(up[u].calls) >= 3
        /\ up[u].fields = <<[name |-> "image_name", value |-> "b.iso"],
                            [name |-> "image_data", value |-> "disk.img"]>>
        /\ up[u].calls[1] = InfoCall("b.iso", FALSE)
        /\ up[u].calls[2].op = "write_image_chunk"

(***************************************************************************)
(* C21.  An upload holds the MSD lock at every step from the read of the   *)
(* image name to the finalize call, so the byte count of the plugin is     *)
(* that of the one upload in progress: chunks of two uploads do not        *)
(* interleave.  An upload that finds the lock held makes no MSD call, is   *)
(* answered 409 and takes no further step.                                 *)
(***************************************************************************)
RefusedBusy(r) == r.pc = "done" /\ r.exit = "enter"

C21_UploadExclusive ==
    /\ [](\A u \in Uploaders :
            /\ up[u].pc \in InProgress
                 => /\ msd_lock = u
                    /\ \A v \in Uploaders \ {u} : up[v].pc \notin InProgress
                    /\ up[u].pc \in {"read", "final"} => msd_written = up[u].written
            /\ RefusedBusy(up[u])
                 => /\ up[u].status = 409
                    /\ up[u].calls = <<>> /\ up[u].written = 0 /\ up[u].image = NoImage)
    /\ [][\A u \in Uploaders : RefusedBusy(up[u]) => up'[u] = up[u]]_vars

\* one upload has written two chunks and holds the lock; the other was refused
C21_Witness ==
    \E u, v \in Uploaders :
        /\ up[u].pc = "read" /\ up[u].nread = 2 /\ up[u].written = 3 /\ msd_lock = u
        /\ RefusedBusy(up[v]) /\ up[v].status = 409

(***************************************************************************)
(* C22.  On one session the messages are handled in the order they         *)
(* arrived, one at a time: the k-th entry of the session's log is its k-th *)
(* message with the effect of that message (pong, the HID call of the      *)
(* event, or none), and while the reply or HID call of a message is        *)
(* awaited no later message has been taken.  The pongs a session is sent   *)
(* are the replies to its own pings, in order.                             *)
(***************************************************************************)
PingsHandled(s) == {k \in 1..Len(msgLog[s]) : msgLog[s][k].did = "pong"}

C22_MessagesInOrder ==
    \A s \in Sessions :
        /\ Len(msgLog[s]) = IF msgPc[s].pc \in {"await", "raised", "returned"}
                            THEN msgPc[s].idx - 1 ELSE msgPc[s].idx
        /\ msgPc[s].idx <= Len(arrived[s])
        /\ \A k \in 1..Len(msgLog[s]) :
               /\ msgLog[s][k].idx = k
               /\ arrived[s][k].type = "TEXT"
               /\ msgLog[s][k].did = EffectOf(arrived[s][k])
        /\ Len(outbox[s]) = Cardinality(PingsHandled(s))
        /\ \A j \in 1..Len(outbox[s]) :
               /\ outbox[s][j].from = s
               /\ outbox[s][j].idx \in PingsHandled(s)
               /\ \A i \in 1..(j - 1) : outbox[s][i].idx < outbox[s][j].idx

\* a session has had its ping answered and then its key event sent, while
\* another session is in its loop and was sent nothing
C22_Witness ==
    \E s, t \in Sessions :
        /\ s # t
        /\ arrived[s] = <<TextMsg("ping", TRUE), TextMsg("key", TRUE)>>
        /\ msgLog[s] = <<[idx |-> 1, did |-> "pong"], [idx |-> 2, did |-> "send_key_event"]>>
        /\ outbox[s] = <<[from |-> s, idx |-> 1]>>
        /\ msgPc[t].pc = "await" /\ outbox[t] = <<>>

(***************************************************************************)
(* C23.  The body of every JSON response is an object whose "ok" is true   *)
(* exactly when the status is 200; on success it has "result", and on a    *)
(* failure of the table it has "error" and "error_msg" at the top level.   *)
(***************************************************************************)
C23_Envelope ==
    (request.op # None /\ response.status \in {200, 400, 401, 403, 409})
    => LET body == BodyOf(response)
       IN  /\ body.ok = (response.status = 200)
           /\ response.status = 200 => "result" \in DOMAIN body
           /\ response.status # 200
                => /\ ~body.ok
                   /\ "error" \in DOMAIN body
                   /\ "error_msg" \in DOMAIN body

(***************************************************************************)
(* C24.  The cleanup handler attempts the cleanup of the auth manager, the *)
(* streamer, the MSD, the ATX and the HID, in this order, whatever faults  *)
(* the earlier ones raised: a fault is logged and the handler goes on.     *)
(* In shutdown, a fault raised by closing a session leaves the session     *)
(* removed and does not end the handler: it ends early only by a fault of  *)
(* hid.clear_events() or by a cancellation.                                *)
(***************************************************************************)
C24_CleanupGoesOn ==
    /\ clean.attempted = SubSeq(Collaborators, 1, Len(clean.attempted))
    /\ clean.logged \subseteq {clean.attempted[i] : i \in 1..Len(clean.attempted)}
    /\ clean.pc # "failed"
    /\ clean.pc = "running" => Len(clean.attempted) < Len(Collaborators)
    /\ clean.pc = "done" => clean.attempted = Collaborators
    /\ shut.close_faults \subseteq shut.removed
    /\ shut.pc = "failed" => shut.fault \in {"clear_events", "CancelledError"}
    /\ shut.pc = "done" => (shut.left = {} /\ shut.fault = None)

\* every session's close raised during shutdown and the first and the third
\* cleanup raised; all five cleanups were attempted
C24_Witness ==
    /\ shut.pc = "done" /\ shut.close_faults = Sessions
    /\ clean.pc = "done" /\ clean.logged = {"Auth manager", "MSD"}
    /\ clean.attempted = Collaborators

(***************************************************************************)
(* C25.  The reset flag goes from set to clear only in a tick of the       *)
(* controller that has stopped the streamer and then started it with       *)
(* no_init_restart: a reset asked for while the streamer does not run is   *)
(* not dropped without a restart.                                          *)
(***************************************************************************)
RestartMade(log) ==
    \E i \in 1..(Len(log) - 1) :
        /\ log[i] = StopCall("drift")
        /\ log[i + 1].op = "start" /\ log[i + 1].no_init_restart /\ log[i + 1].by = "drift"

C25_ResetClearedByRestart ==
    [][(reset_streamer /\ ~reset_streamer') => RestartMade(calls')]_vars

(***************************************************************************)
(* C26.  At the start of a tick in which the connection-driven trigger     *)
(* acts (a start on the first session, or a stop after the deadline) and   *)
(* the parameter/reset-driven trigger is due, the two triggers leave the   *)
(* same streamer state, applied parameters and reset flag in either order. *)
(***************************************************************************)
ConnActs(st) == ConnTrigger(st).running # st.running

TickResult(st) == [running |-> st.running, applied |-> st.applied, flag |-> st.flag]

C26_TriggersCommute ==
    ctlPc = "conn"
    => LET st == TickState(Cardinality(sockets))
       IN  (ConnActs(st) /\ DriftDue(st.flag, st.params, st.applied))
           => TickResult(DriftTrigger(ConnTrigger(st)))
                  = TickResult(ConnTrigger(DriftTrigger(st)))

(***************************************************************************)
(* C27.  A tick that observes the count its predecessor observed makes no  *)
(* connection-driven start and does not arm the shutdown deadline, also    *)
(* when a session connected and disconnected in between; a stop it makes   *)
(* is the one due by the deadline that stood before (no session at either  *)
(* tick, the streamer running, the deadline passed).                       *)
(***************************************************************************)
ConnCalls == {calls[i] : i \in {j \in 1..Len(calls) : calls[j].by = "conn"}}

C27_BlipUnseen ==
    (ctlPc = "drift" /\ tick.prev = tick.cur)
    => /\ \A k \in ConnCalls : k.op # "start"
       /\ shutdown_at = tick.deadline
       /\ (\E k \in ConnCalls : k.op = "stop")
              <=> (tick.cur = 0 /\ tick.ran /\ tick.now > tick.deadline)

\* a session connected and disconnected between two ticks that observed no
\* session; the deadline had not passed and the streamer still runs
C27_Witness ==
    /\ ctlPc = "drift" /\ tick.blip
    /\ tick.prev = 0 /\ tick.cur = 0 /\ tick.ran /\ running
    /\ tick.now <= tick.deadline /\ tick.deadline > 0
    /\ calls = <<>>

(***************************************************************************)
(* C28.  An upload that fails in its stream (reading a chunk or writing    *)
(* one) after a chunk was written ends with the failure, and the calls it  *)
(* made to the mass storage are the opening write_image_info(name, False)  *)
(* and the chunks: no write_image_info(name, True) and no other call.      *)
(***************************************************************************)
MidStreamFailure(r) == r.pc = "done" /\ r.exit \in {"read", "write"} /\ r.written > 0

C28_NoFinalizeAfterFailure ==
    \A u \in Uploaders :
        (Followed(u) /\ MidStreamFailure(up[u]))
        => /\ up[u].status # 200
           /\ up[u].image = NoImage
           /\ Len(up[u].calls) >= 2
           /\ up[u].calls[1].op = "write_image_info" /\ ~up[u].calls[1].complete
           /\ \A i \in 2..Len(up[u].calls) : up[u].calls[i].op = "write_image_chunk"

\* the second write_image_chunk failed after the first was written
C28_Witness ==
    \E u \in Uploaders :
        /\ Followed(u) /\ MidStreamFailure(up[u])
        /\ up[u].exit = "write" /\ Len(up[u].calls) = 3

(***************************************************************************)
(* C29.  Every session in the registry was registered by a /ws request     *)
(* that presented a credential (the user header, or else the token cookie) *)
(* which the auth manager accepted at the time of the request.             *)
(***************************************************************************)
C29_RegisteredWereAdmitted ==
    \A s \in sockets : admitted[s].by \in {"header", "cookie"} /\ admitted[s].good

\* a session came in by the token /auth/login had issued; the /ws request
\* that followed, with failing credentials, was refused and registered nothing
C29_Witness ==
    /\ \E s \in sockets : admitted[s].by = "cookie"
    /\ sockets # Sessions
    /\ request.op = "ws" /\ response.status = 403 /\ ~response.invoked

(***************************************************************************)
(* C30.  A full-state replay of the domain that another session's connect  *)
(* triggered comes to a session only with a state at least as new as that  *)
(* of every incremental event the session received before it.              *)
(***************************************************************************)
C30_NoStaleReplayAfterIncr ==
    \A j \in 1..Len(inbox) :
        (inbox[j].kind = "replay" /\ inbox[j].origin # observed)
        => \A i \in 1..(j - 1) : inbox[i].kind = "incr" => inbox[i].ver <= inbox[j].ver

(***************************************************************************)
(* C32.  Whenever the controller calls start, the streamer is not running  *)
(* at the call: is_running() was just read false (connection-driven) or    *)
(* the controller's own stop has just returned (drift- or reset-driven).   *)
(***************************************************************************)
StartIssued ==
    /\ calls' # calls /\ calls' # <<>>
    /\ calls'[Len(calls')].op = "start"

C32_StartOnlyWhenStopped ==
    [][StartIssued
       => /\ ~running
          /\ calls'[Len(calls')].by = "conn" => calls' = <<calls'[1]>>
          /\ calls'[Len(calls')].by = "drift"
                => /\ Len(calls) >= 1
                   /\ calls[Len(calls)] = StopCall("drift")]_vars

\* a session reconnected while the streamer still ran: the tick saw the first
\* session and made no start; the same tick then restarted for a reset
C32_Witness ==
    /\ ctlPc = "restarted"
    /\ tick.prev = 0 /\ tick.cur > 0 /\ tick.ran
    /\ calls = <<StopCall("drift"), StartCall(streamer_params, RestartNoInit, "drift")>>

(***************************************************************************)
(* C31.  If from some tick on the controller reads a count of zero at      *)
(* every tick, the streamer is eventually stopped and stays stopped,       *)
(* whatever parameter changes and reset requests arrive.                   *)
(***************************************************************************)
C31_IdleStops == <>[](cur = 0) => <>[](~running)

\* the deadline has passed with no session and the tick has stopped the
\* streamer; a reset request is pending and the streamer stays stopped
C31_Witness ==
    /\ ctlPc = "sleep" /\ prev = 0 /\ cur = 0 /\ ~running
    /\ calls = <<StopCall("conn")>>
    /\ streamer_params # applied

(***************************************************************************)
(* C33.  A /streamer/set_params request that fails validation leaves the   *)
(* desired streamer parameters as they were.                               *)
(***************************************************************************)
C33_FailedSetParamsNoChange ==
    [][\A q \in QualityValues \cup {Absent, Invalid}, f \in FpsValues \cup {Absent, Invalid} :
          (SetParamsRequest(q, f) /\ SetParams(streamer_params, q, f).error # "")
          => streamer_params' = streamer_params]_vars

(***************************************************************************)
(* C34.  When a remove call leaves the lock, its session is not in the     *)
(* registry, and a fault of hid.clear_events() is not raised to the caller.*)
(***************************************************************************)
C34_RemoveAlwaysRemoves ==
    \A c \in Callers :
        (call[c].op = "remove" /\ call[c].pc = "release")
        => /\ call[c].ws \notin sockets
           /\ call[c].hidFails => call[c].result = ""

(***************************************************************************)
(* C35.  A remove call that finds its session not in the registry leaves   *)
(* the registry as it is, closes nothing and raises nothing (the HID call  *)
(* it made before having returned).                                        *)
(***************************************************************************)
RemovedNothing(k) ==
    /\ k.op = "remove" /\ k.pc \in {"release", "done"}
    /\ k.steps = <<"clear">> /\ ~k.hidFails

Ignorable(msg) ==
    /\ msg.type = "TEXT"
    /\ \/ msg.data = "malformed"
       \/ msg.data = "object" /\ msg.event_type \notin HidEvents \cup {"ping"}
       \/ msg.data = "object" /\ msg.event_type \in HidEvents /\ ~msg.valid

HeaderPasses(r) == valid_user(r.user) /\ valid_passwd(r.passwd) /\ authorize(r.user, r.passwd)

C37_HeaderDecides ==
    (request.op # None /\ AuthRequired(request.op) /\ request.user # "")
    => /\ response.invoked = HeaderPasses(request)
       /\ ~HeaderPasses(request)
            => response.status = IF valid_user(request.user) /\ valid_passwd(request.passwd)
                                 THEN 403 ELSE 400

\* a header user the auth manager rejects, sent with the cookie of a live
\* token, is answered 403
C37_Witness ==
    /\ request.op = "auth_check"
    /\ request.user = "admin" /\ request.passwd = "wrong"
    /\ request.token \in authTokens /\ request.cookieValid
    /\ response.status = 403 /\ ~response.invoked

(***************************************************************************)
(* C38.  From the second poll on: when the pin states after a poll differ  *)
(* from those after the poll before, the poll notified; and after a poll   *)
(* that failed every pin is None.                                          *)
(***************************************************************************)
C38_ChangeNotified ==
    polls >= 2
    => /\ ustate # afterPrev => notified
       /\ failed => \A p \in Pins : ustate[p] = None

(***************************************************************************)
(* C39.  As stated: a Redfish action request for a known system with the   *)
(* ComputerSystem.Reset action and a ResetType of the system's set invokes *)
(* exactly the action mapped to it (for the built-in system the table of   *)
(* the claim) and is answered 204; any other request for a known system    *)
(* is answered 400 and invokes nothing.                                    *)
(***************************************************************************)
ClaimedBuiltin(t) ==
    CASE t \in {"On", "ForceOn"} -> "power_on"
      [] t = "ForceOff" -> "power_off_hard"
      [] t = "GracefulShutdown" -> "power_off"
      [] t = "ForceRestart" -> "power_reset_hard"
      [] t = "PushPowerButton" -> "click_power"
      [] OTHER -> None

RedfishKnown == rfRequest.system \in KnownSystems(rfChannels)

RedfishValid ==
    /\ rfRequest.action = ResetSet
    /\ rfRequest.body.json /\ rfRequest.body.has
    /\ rfRequest.body.reset \in DOMAIN ResetActions(rfChannels, rfRequest.system)

C39_Original ==
    RedfishKnown
    => IF RedfishValid
       THEN /\ Len(rfInvoked) = 1
            /\ rfInvoked[1].action = ResetActions(rfChannels, rfRequest.system)[rfRequest.body.reset]
            /\ rfRequest.system = BuiltinSystem
                 => rfInvoked[1].action.call = ClaimedBuiltin(rfRequest.body.reset)
            /\ rfResponse.status = 204
       ELSE rfInvoked = <<>> /\ rfResponse.status = 400

\* C39 as amended: the answer is 204 when the invoked action returns, and
\* the wrapper's answer to its exception when it raises; the built-in
\* system's table is the claim's for the reset types no GPIO channel of
\* that system's name has replaced.
C39_RedfishAction ==
    RedfishKnown
    => IF RedfishValid
       THEN /\ Len(rfInvoked) = 1
            /\ rfInvoked[1].action = ResetActions(rfChannels, rfRequest.system)[rfRequest.body.reset]
            /\ rfInvoked[1].action.channel = <<>>
                 => /\ rfRequest.system = BuiltinSystem
                    /\ rfInvoked[1].action.call = ClaimedBuiltin(rfRequest.body.reset)
            /\ rfInvoked[1].action.channel # <<>>
                 => /\ rfInvoked[1].action.channel[1] = rfRequest.system
                    /\ rfRequest.body.reset \in ChannelKeys(rfInvoked[1].action.channel)
            /\ rfResponse.status = IF rfResponse.error = "" THEN 204
                                   ELSE RedfishStatus(rfResponse.error)
       ELSE rfInvoked = <<>> /\ rfResponse.status = 400

\* GracefulShutdown for the built-in system invoked power_off, which found
\* the ATX busy: the answer is 409
C39_Witness ==
    /\ rfRequest = [system |-> BuiltinSystem, action |-> ResetSet,
                    body |-> WithResetType("GracefulShutdown")]
    /\ rfInvoked = <<[action |-> AtxAction("power_off"), wait |-> FALSE]>>
    /\ rfResponse = [status |-> 409, error |-> "AtxIsBusyError"]

====
